---- MODULE Spec2Model ----
(***************************************************************************)
(* Case query and mutation engine of the CyberCrime dashboard:             *)
(* server/routes.ts (the /api/cyber-cases handlers), server/storage.ts     *)
(* (DatabaseStorage) and shared/schema.ts (the cyber_cases table and the   *)
(* insert schema derived from it).                                         *)
(*                                                                         *)
(* Text values are sequences of one-character strings, so that pattern     *)
(* matching, case folding and parsing are computed character by            *)
(* character.                                                              *)
(***************************************************************************)
EXTENDS Integers, Sequences, FiniteSets, TLC

(* ------------------------------ bounds -------------------------------- *)

\* records ever inserted (ids are never reused)
MaxId == 2
\* values of the store clock
MaxClock == 2

(* --------------------------- text helpers ----------------------------- *)

Digits == {"0", "1", "2", "3", "4", "5", "6", "7", "8", "9"}

DigitVal ==
  ("0" :> 0) @@ ("1" :> 1) @@ ("2" :> 2) @@ ("3" :> 3) @@ ("4" :> 4) @@
  ("5" :> 5) @@ ("6" :> 6) @@ ("7" :> 7) @@ ("8" :> 8) @@ ("9" :> 9)

\* lower case of the capital letters
LowerCase ==
  ("A" :> "a") @@ ("B" :> "b") @@ ("C" :> "c") @@ ("D" :> "d") @@ ("E" :> "e") @@
  ("F" :> "f") @@ ("G" :> "g") @@ ("H" :> "h") @@ ("I" :> "i") @@ ("J" :> "j") @@
  ("K" :> "k") @@ ("L" :> "l") @@ ("M" :> "m") @@ ("N" :> "n") @@ ("O" :> "o") @@
  ("P" :> "p") @@ ("Q" :> "q") @@ ("R" :> "r") @@ ("S" :> "s") @@ ("T" :> "t") @@
  ("U" :> "u") @@ ("V" :> "v") @@ ("W" :> "w") @@ ("X" :> "x") @@ ("Y" :> "y") @@
  ("Z" :> "z")

\* the characters of ASCII: the letters and, of those that are no letters,
\* the controls isspace knows, the space, the digits and the punctuation
\* (the grave accent, which no string here can hold, left out)
Ascii ==
  DOMAIN LowerCase \cup {LowerCase[c] : c \in DOMAIN LowerCase} \cup
  {"\t", "\n", "\r", "\f", "", " "} \cup Digits \cup
  {"!", "\"", "#", "$", "%", "&", "'", "(", ")", "*", "+", ",", "-", ".", "/",
   ":", ";", "<", "=", ">", "?", "@", "[", "\\", "]", "^", "_", "{", "|", "}",
   "~"}

\* case folding applied by ILIKE to both operands, as far as it is the
\* same under lc_ctype C and under the locales that fold the letters of
\* ASCII as C does: a capital letter of ASCII is taken for its lower-case
\* form and any other character of ASCII for itself. Whether a letter
\* outside ASCII is folded depends on the locale of the database (with
\* lc_ctype C it is not, with a UTF-8 locale it is); of such a character
\* nothing is said
Lower ==
  [c \in Ascii |-> IF c \in DOMAIN LowerCase THEN LowerCase[c] ELSE c]

Range(s) == {s[i] : i \in 1..Len(s)}

AllDigits(s) == \A i \in 1..Len(s) : s[i] \in Digits

RECURSIVE DigitsToNat(_)
DigitsToNat(s) ==
  IF s = <<>> THEN 0
  ELSE 10 * DigitsToNat(SubSeq(s, 1, Len(s) - 1)) + DigitVal[s[Len(s)]]

\* position of the first occurrence of c in s, 0 when there is none
RECURSIVE IndexOf(_, _)
IndexOf(s, c) ==
  IF s = <<>> THEN 0
  ELSE IF Head(s) = c THEN 1
  ELSE LET r == IndexOf(Tail(s), c) IN IF r = 0 THEN 0 ELSE r + 1

\* PostgreSQL LIKE on case-folded operands: % matches any run of
\* characters, _ matches one character, backslash quotes the next one
RECURSIVE LikeMatch(_, _)
LikeMatch(t, p) ==
  IF p = <<>> THEN t = <<>>
  ELSE IF Head(p) = "%"
    THEN LikeMatch(t, Tail(p)) \/ (t # <<>> /\ LikeMatch(Tail(t), p))
  ELSE IF Head(p) = "\\"
    THEN /\ Len(p) >= 2
         /\ t # <<>>
         /\ Lower[Head(t)] = Lower[p[2]]
         /\ LikeMatch(Tail(t), Tail(Tail(p)))
  ELSE IF Head(p) = "_"
    THEN t # <<>> /\ LikeMatch(Tail(t), Tail(p))
  ELSE /\ t # <<>>
       /\ Lower[Head(t)] = Lower[Head(p)]
       /\ LikeMatch(Tail(t), Tail(p))

\* column ILIKE '%' || search || '%'
ILike(t, search) == LikeMatch(t, <<"%">> \o search \o <<"%">>)

(* ----------------------------- conversions ---------------------------- *)

\* StrWhiteSpaceChar of JavaScript, which parseInt skips: TAB, VT, FF,
\* SP, NBSP (U+00A0), ZWNBSP (U+FEFF), LF, CR and the space separator
\* U+1680. LS, PS and the space separators from U+2000 on are of it too;
\* no string here can hold them
StrWhiteSpaceChar ==
  {"\t", "", "\f", " ", " ", "﻿", "\n", "\r", " "}

\* the characters the store skips around a date or a number (isspace):
\* SP, TAB, LF, VT, FF and CR
WhiteSpace == {" ", "\t", "\n", "", "\f", "\r"}

\* length of the leading run of characters of s that are in set
RECURSIVE LeadIn(_, _)
LeadIn(s, set) ==
  IF s = <<>> \/ Head(s) \notin set THEN 0 ELSE 1 + LeadIn(Tail(s), set)

\* s without its leading characters of set
SkipSpace(s, set) == SubSeq(s, LeadIn(s, set) + 1, Len(s))

\* s without the white space at its two ends
RECURSIVE Trim(_)
Trim(s) ==
  LET t == SkipSpace(s, WhiteSpace)
  IN IF t # <<>> /\ t[Len(t)] \in WhiteSpace
     THEN Trim(SubSeq(t, 1, Len(t) - 1)) ELSE t

HexVal ==
  DigitVal @@
  ("a" :> 10) @@ ("b" :> 11) @@ ("c" :> 12) @@ ("d" :> 13) @@ ("e" :> 14) @@
  ("f" :> 15) @@ ("A" :> 10) @@ ("B" :> 11) @@ ("C" :> 12) @@ ("D" :> 13) @@
  ("E" :> 14) @@ ("F" :> 15)

RECURSIVE RadixToNat(_, _)
RadixToNat(s, radix) ==
  IF s = <<>> THEN 0
  ELSE radix * RadixToNat(SubSeq(s, 1, Len(s) - 1), radix) + HexVal[s[Len(s)]]

\* JavaScript parseInt(text) on a query-string value: leading white space
\* (StrWhiteSpaceChar) is skipped, then an optional sign, then the leading run of digits,
\* hexadecimal ones after a 0x or 0X prefix and decimal ones otherwise;
\* NaN when that run is empty
ParseInt(s) ==
  LET t == SkipSpace(s, StrWhiteSpaceChar)
      signed == t # <<>> /\ Head(t) \in {"-", "+"}
      u == IF signed THEN Tail(t) ELSE t
      hex == Len(u) >= 2 /\ u[1] = "0" /\ u[2] \in {"x", "X"}
      body == IF hex THEN SubSeq(u, 3, Len(u)) ELSE u
      k == LeadIn(body, IF hex THEN DOMAIN HexVal ELSE Digits)
      mag == RadixToNat(SubSeq(body, 1, k), IF hex THEN 16 ELSE 10)
  IN IF k = 0 THEN [nan |-> TRUE, n |-> 0]
     ELSE [nan |-> FALSE, n |-> IF signed /\ Head(t) = "-" THEN 0 - mag ELSE mag]

DaysIn(y, m) ==
  IF m \in {4, 6, 9, 11} THEN 30
  ELSE IF m = 2
    THEN (IF y % 4 = 0 /\ (y % 100 # 0 \/ y % 400 = 0) THEN 29 ELSE 28)
  ELSE 31

\* input conversion of the date column. known tells whether the text is
\* of the part of the store's date grammar that is computed here: white
\* space, a year of four digits, a month and a day of one or two digits
\* joined by dashes, or the eight digits YYYYMMDD, white space. The store
\* reads more spellings than these (month names, other field orders,
\* times of day, eras, words such as today); of a text that is not known
\* nothing is said. ok tells whether a known text is a date of the
\* calendar; a text of white space alone is known and is no date
ParseDate(s) ==
  LET t == Trim(s)
      rest == SubSeq(t, 6, Len(t))
      cut == IndexOf(rest, "-")
      mm == SubSeq(rest, 1, cut - 1)
      dd == SubSeq(rest, cut + 1, Len(rest))
      dashed == /\ Len(t) >= 8
                /\ AllDigits(SubSeq(t, 1, 4))
                /\ t[5] = "-"
                /\ cut \in {2, 3}
                /\ AllDigits(mm)
                /\ Len(dd) \in {1, 2}
                /\ AllDigits(dd)
      compact == Len(t) = 8 /\ AllDigits(t)
      y == DigitsToNat(SubSeq(t, 1, 4))
      m == IF compact THEN DigitsToNat(SubSeq(t, 5, 6)) ELSE DigitsToNat(mm)
      d == IF compact THEN DigitsToNat(SubSeq(t, 7, 8)) ELSE DigitsToNat(dd)
  IN IF t = <<>>
     THEN [known |-> TRUE, ok |-> FALSE, y |-> 0, m |-> 0, d |-> 0]
     ELSE IF ~(dashed \/ compact)
     THEN [known |-> FALSE, ok |-> FALSE, y |-> 0, m |-> 0, d |-> 0]
     ELSE IF y >= 1 /\ m \in 1..12 /\ d >= 1 /\ d <= DaysIn(y, m)
     THEN [known |-> TRUE, ok |-> TRUE, y |-> y, m |-> m, d |-> d]
     ELSE [known |-> TRUE, ok |-> FALSE, y |-> 0, m |-> 0, d |-> 0]

\* calendar order of two stored dates
DateOrd(dt) == dt.y * 10000 + dt.m * 100 + dt.d

\* decimal(15, 2) of the stolen_amount column
NumericPrecision == 15
NumericScale == 2

\* the digits of an amount the integers of the model can hold
MaxCentsDigits == 9

RECURSIVE StripZeros(_)
StripZeros(s) ==
  IF s # <<>> /\ Head(s) = "0" THEN StripZeros(Tail(s)) ELSE s

DigitChar(n) == CHOOSE c \in Digits : DigitVal[c] = n

Zeros(n) == [i \in 1..n |-> "0"]

\* the numeral of the number after the one numeral s is of
RECURSIVE Increment(_)
Increment(s) ==
  IF s = <<>> THEN <<"1">>
  ELSE IF s[Len(s)] = "9" THEN Increment(SubSeq(s, 1, Len(s) - 1)) \o <<"0">>
  ELSE SubSeq(s, 1, Len(s) - 1) \o <<DigitChar(DigitVal[s[Len(s)]] + 1)>>

Letters == DOMAIN LowerCase \cup {LowerCase[c] : c \in DOMAIN LowerCase}

\* the words the numeric grammar has
NumericWords ==
  {<<"n", "a", "n">>, <<"i", "n", "f">>,
   <<"i", "n", "f", "i", "n", "i", "t", "y">>}

\* the element of a set of one element
TheOne(S) == CHOOSE x \in S : TRUE

\* the parts of a trimmed text read as [sign] digits [. digits]
\* [e [sign] digits]
NumericParts(t) ==
  LET signed == t # <<>> /\ Head(t) \in {"-", "+"}
      u == IF signed THEN Tail(t) ELSE t
      ePos == LET lo == IndexOf(u, "e")
                  up == IndexOf(u, "E")
              IN IF lo = 0 THEN up ELSE IF up = 0 THEN lo
                 ELSE IF lo < up THEN lo ELSE up
      mant == IF ePos = 0 THEN u ELSE SubSeq(u, 1, ePos - 1)
      expo == IF ePos = 0 THEN <<>> ELSE SubSeq(u, ePos + 1, Len(u))
      expSigned == expo # <<>> /\ Head(expo) \in {"-", "+"}
      dot == IndexOf(mant, ".")
  IN [neg |-> signed /\ Head(t) = "-",
      ip |-> IF dot = 0 THEN mant ELSE SubSeq(mant, 1, dot - 1),
      fp |-> IF dot = 0 THEN <<>> ELSE SubSeq(mant, dot + 1, Len(mant)),
      exponent |-> ePos # 0,
      expNeg |-> expSigned /\ Head(expo) = "-",
      expDigits |-> IF expSigned THEN Tail(expo) ELSE expo]

\* the parts are those of a number
NumericSyntax(p) ==
  /\ AllDigits(p.ip)
  /\ AllDigits(p.fp)
  /\ Len(p.ip) + Len(p.fp) >= 1
  /\ p.exponent => (p.expDigits # <<>> /\ AllDigits(p.expDigits))

\* a text of letters that is no word of the numeric grammar
NumericWord(t) ==
  /\ t # <<>>
  /\ \A i \in 1..Len(t) : t[i] \in Letters
  /\ [i \in 1..Len(t) |-> Lower[t[i]]] \notin NumericWords

\* the numeral of the hundredths of the magnitude of a number: the point
\* is shifted by the exponent and the value rounded half away from zero
\* to two decimals
NumericRounded(p) ==
  LET e == DigitsToNat(p.expDigits)
      left == IF p.expNeg THEN Zeros(e) \o p.ip ELSE p.ip
      right == IF p.expNeg THEN p.fp ELSE p.fp \o Zeros(e)
      ipE == IF p.expNeg
             THEN SubSeq(left, 1, Len(left) - e)
             ELSE left \o SubSeq(right, 1, e)
      fpE == IF p.expNeg
             THEN SubSeq(left, Len(left) - e + 1, Len(left)) \o right
             ELSE SubSeq(right, e + 1, Len(right))
      kept == SubSeq(fpE \o Zeros(NumericScale), 1, NumericScale)
      up == Len(fpE) > NumericScale /\ DigitVal[fpE[NumericScale + 1]] >= 5
      whole == StripZeros(ipE \o kept)
  IN IF up THEN Increment(whole) ELSE whole

\* the value of a number of the given sign whose hundredths are the
\* numeral rounded: the precision of the column is tested on the rounded
\* value
NumericValue(neg, rounded) ==
  IF Len(rounded) > NumericPrecision
  THEN [known |-> TRUE, ok |-> FALSE, cents |-> 0]
  ELSE IF Len(rounded) > MaxCentsDigits
  THEN [known |-> FALSE, ok |-> FALSE, cents |-> 0]
  ELSE [known |-> TRUE, ok |-> TRUE,
        cents |-> IF neg THEN 0 - DigitsToNat(rounded)
                  ELSE DigitsToNat(rounded)]

\* input conversion of the numeric(15,2) column. known tells whether the
\* text is of the part of the store's numeric grammar that is computed
\* here: white space, [sign] digits [. digits] [e [sign] digits] with an
\* exponent of at most two digits, white space, the value being one the
\* integers of the model hold; and, as texts the store refuses, the empty
\* text and the words of letters that are none of NaN, inf and Infinity.
\* Of a text that is not known (NaN, an infinity, other radixes, digit
\* separators) nothing is said. The value is shifted by the exponent,
\* rounded half away from zero to two decimals and then tested against
\* the precision of the column; it is held as hundredths
ParseNumeric(s) ==
  TheOne({IF t = <<>> \/ NumericWord(t)
          THEN [known |-> TRUE, ok |-> FALSE, cents |-> 0]
          ELSE TheOne({IF ~NumericSyntax(p) \/ Len(p.expDigits) > 2
                       THEN [known |-> FALSE, ok |-> FALSE, cents |-> 0]
                       ELSE TheOne({NumericValue(p.neg, r) :
                                      r \in {NumericRounded(p)}}) :
                         p \in {NumericParts(t)}}) :
            t \in {Trim(s)}})

RECURSIVE NatToDigits(_)
NatToDigits(n) ==
  IF n < 10 THEN <<DigitChar(n)>>
  ELSE NatToDigits(n \div 10) \o <<DigitChar(n % 10)>>

\* output conversion of a numeric of scale 2: [-] digits . two digits
FormatNumeric(cents) ==
  LET mag == IF cents < 0 THEN 0 - cents ELSE cents
  IN (IF cents < 0 THEN <<"-">> ELSE <<>>)
     \o NatToDigits(mag \div 100)
     \o <<".", DigitChar((mag % 100) \div 10), DigitChar(mag % 10)>>

(* ------------------------------- schema ------------------------------- *)

\* columns of cyber_cases that are NOT NULL and have no default
RequiredFields ==
  {"caseDate", "expedientNumber", "crimeType", "senderAccountData",
   "victim", "receiverAccountData", "stolenAmount"}

\* columns that accept NULL
NullableFields == {"receiverAccountResearch", "observations"}

\* columns that are NOT NULL with a default
DefaultedFields == {"investigationStatus"}

\* keys of insertCyberCaseSchema: the table's columns without id,
\* createdBy, createdAt and updatedAt
SchemaFields == RequiredFields \cup NullableFields \cup DefaultedFields

\* variant: another column default
DefaultStatus_Rechazado == "Rechazado"

DefaultStatus == "Pendiente"

\* JSON values of a request body
JStr(s) == [t |-> "string", s |-> s]
JNum(s) == [t |-> "number", s |-> s]
JNull == [t |-> "null", s |-> <<>>]

\* variant: keys outside the schema are passed through
ZodParse_Passthrough(body, partial) ==
  LET fieldOk(f) ==
        IF f \in DOMAIN body
        THEN \/ body[f].t = "string"
             \/ (f \in NullableFields /\ body[f].t = "null")
        ELSE partial \/ f \notin RequiredFields
  IN [ok |-> \A f \in SchemaFields : fieldOk(f), data |-> body]

\* insertCyberCaseSchema.parse / insertCyberCaseSchema.partial().parse:
\* every column is a string schema, keys outside the schema are stripped
ZodParse(body, partial) ==
  LET fieldOk(f) ==
        IF f \in DOMAIN body
        THEN \/ body[f].t = "string"
             \/ (f \in NullableFields /\ body[f].t = "null")
        ELSE partial \/ f \notin RequiredFields
  IN [ok |-> \A f \in SchemaFields : fieldOk(f),
      data |-> [f \in (DOMAIN body \cap SchemaFields) |-> body[f]]]

(* -------------------------------- state ------------------------------- *)

VARIABLES
  store,    \* the cyber_cases table: id -> row
  nextId,   \* ids handed out so far + 1 (gen_random_uuid never repeats)
  clock,    \* the latest time the store's now() has returned
  resp,     \* the last response sent; none while a request awaits the store
  scan,     \* pages fetched in a row by a client paging with limit 1
  sessions, \* the sessions table: session id -> req.session.userId
  users,    \* the users table: a set of rows
  nextUser, \* users created through POST /api/users so far + 1
  pending   \* requests awaiting the store: slot -> request

vars == <<store, nextId, clock, resp, scan, sessions, users, nextUser, pending>>

\* what the case routes leave alone
accounts == <<sessions, users, nextUser>>

\* session identities that reach the handlers
Users == {"admin", "investigator"}

\* the session cookies clients present, and a session without userId
SessionIds == {"s1", "s2"}
NoUser == ""

\* the requests that can await the store at one time
Slots == 1..2
Idle == [op |-> "none", pc |-> "idle"]

\* ids a client can name: 0 is an id that was never assigned
RequestIds == 0..(nextId - 1)

\* nan names the parameters that are NaN
NoArgs ==
  [page |-> 0, limit |-> 0, offset |-> 0, nan |-> {}, search |-> <<>>,
   crimeType |-> <<>>, dateFrom |-> <<>>, dateTo |-> <<>>]

NoStats ==
  [totalCases |-> 0, totalAmount |-> <<>>, activeCases |-> 0,
   resolvedCases |-> 0, monthlyCases |-> <<>>, crimeTypeStats |-> <<>>]

\* err names what the handler's catch block caught ("" when nothing);
\* year is the year of CURRENT_DATE when the statistics were computed
Response(op, status, id, err) ==
  [op |-> op, status |-> status, id |-> id, err |-> err, ids |-> <<>>,
   total |-> 0, args |-> NoArgs, stats |-> NoStats, year |-> 0]

\* no response yet: the request that arrived last awaits the store
Awaited == Response("none", 0, 0, "")

NoScan == [filter |-> NoArgs, pages |-> <<>>]

\* hashPassword: the SHA-256 digest of the password, distinct for
\* distinct passwords
HashPassword(password) == <<"sha256", password>>

\* users that can be created through POST /api/users
MaxUser == 1

\* the ids gen_random_uuid gives the users created through POST /api/users
NewUserId(n) == <<"user1", "user2", "user3">>[n]

\* rows of the users table written by initializeDefaultUsers: four active
\* users and a deactivated one, who shares a password with an active one
DefaultUsers ==
  {[id |-> "admin", username |-> "admin",
    password |-> HashPassword("admin123"), isActive |-> "true"],
   [id |-> "investigator", username |-> "maria.gonzalez",
    password |-> HashPassword("investigador123"), isActive |-> "true"],
   [id |-> "analyst", username |-> "carlos.rodriguez",
    password |-> HashPassword("analista123"), isActive |-> "true"],
   [id |-> "auditor", username |-> "ana.martinez",
    password |-> HashPassword("auditor123"), isActive |-> "true"],
   [id |-> "suspended", username |-> "jose.lopez",
    password |-> HashPassword("investigador123"), isActive |-> "false"]}

\* an empty cyber_cases table and the users of initializeDefaultUsers; the
\* sessions table (connect-pg-simple) outlives the server and holds the
\* sessions of two callers who logged in
Init ==
  /\ store = <<>>
  /\ nextId = 1
  /\ clock = 1
  /\ resp = Awaited
  /\ scan = NoScan
  /\ sessions = [sid \in SessionIds |-> IF sid = "s1" THEN "admin" ELSE "investigator"]
  /\ users = DefaultUsers
  /\ nextUser = 1
  /\ pending = [s \in Slots |-> Idle]

(* ------------------------------ storage ------------------------------- *)

\* value a column takes from a validated JSON value
ColumnValue(f, v) ==
  IF f = "caseDate"
    THEN LET dt == ParseDate(v.s) IN [y |-> dt.y, m |-> dt.m, d |-> dt.d]
  ELSE IF f = "stolenAmount" THEN ParseNumeric(v.s).cents
  ELSE IF f \in NullableFields THEN v
  ELSE v.s

\* the statement is refused when a bound value is not of its column's type
BindError(data) ==
  \/ ("caseDate" \in DOMAIN data /\ ~ParseDate(data["caseDate"].s).ok)
  \/ ("stolenAmount" \in DOMAIN data /\ ~ParseNumeric(data["stolenAmount"].s).ok)

\* variant: uniqueness looked at only when a row is inserted
UniqueViolation_InsertOnly(st, self, data) ==
  /\ self = 0
  /\ "expedientNumber" \in DOMAIN data
  /\ \E i \in DOMAIN st : st[i].expedientNumber = data["expedientNumber"].s

\* expedient_number is declared unique()
UniqueViolation(st, self, data) ==
  /\ "expedientNumber" \in DOMAIN data
  /\ \E i \in DOMAIN st :
       i # self /\ st[i].expedientNumber = data["expedientNumber"].s

\* the error a refused insert or update raises
StoreError(st, self, data) ==
  IF BindError(data) THEN "InvalidInput" ELSE "UniqueViolation"

\* variant: the row is stamped with the route's fallback identity
InsertedRow_FallbackUser(data, userId, now) ==
  [f \in SchemaFields |->
     IF f \in DOMAIN data THEN ColumnValue(f, data[f])
     ELSE IF f \in NullableFields THEN JNull
     ELSE DefaultStatus]
  @@ [createdBy |-> "admin", createdAt |-> now, updatedAt |-> now]

\* DatabaseStorage.createCyberCase: insert {...caseData, createdBy: userId}
InsertedRow(data, userId, now) ==
  [f \in SchemaFields |->
     IF f \in DOMAIN data THEN ColumnValue(f, data[f])
     ELSE IF f \in NullableFields THEN JNull
     ELSE DefaultStatus]
  @@ [createdBy |-> userId, createdAt |-> now, updatedAt |-> now]

\* variant: an update older than the row's last one is dropped
UpdatedRow_KeepNewer(row, data, now) ==
  IF row.updatedAt > now THEN row
  ELSE [f \in DOMAIN row |->
          IF f = "updatedAt" THEN now
          ELSE IF f \in DOMAIN data THEN ColumnValue(f, data[f])
          ELSE row[f]]

\* DatabaseStorage.updateCyberCase: set {...caseData, updatedAt: new Date()}
UpdatedRow(row, data, now) ==
  [f \in DOMAIN row |->
     IF f = "updatedAt" THEN now
     ELSE IF f \in DOMAIN data THEN ColumnValue(f, data[f])
     ELSE row[f]]

\* variant: a condition pushed for every filter, empty or not
WhereConditions_PushEmpty(a) ==
  <<[k |-> "search", v |-> a.search], [k |-> "crimeType", v |-> a.crimeType]>>
  \o (IF a.dateFrom # <<>> THEN <<[k |-> "dateFrom", v |-> a.dateFrom]>> ELSE <<>>)
  \o (IF a.dateTo # <<>> THEN <<[k |-> "dateTo", v |-> a.dateTo]>> ELSE <<>>)

\* the conditions getCyberCases pushes, in order
WhereConditions(a) ==
  (IF a.search # <<>> THEN <<[k |-> "search", v |-> a.search]>> ELSE <<>>)
  \o (IF a.crimeType # <<>> THEN <<[k |-> "crimeType", v |-> a.crimeType]>> ELSE <<>>)
  \o (IF a.dateFrom # <<>> THEN <<[k |-> "dateFrom", v |-> a.dateFrom]>> ELSE <<>>)
  \o (IF a.dateTo # <<>> THEN <<[k |-> "dateTo", v |-> a.dateTo]>> ELSE <<>>)

\* variant: the crime type compared as the search text is
EvalCondition_CrimeTypeILike(row, c) ==
  CASE c.k = "search" ->
         \/ ILike(row.expedientNumber, c.v)
         \/ ILike(row.crimeType, c.v)
         \/ ILike(row.victim, c.v)
    [] c.k = "crimeType" -> ILike(row.crimeType, c.v)
    [] c.k = "dateFrom" -> DateOrd(row.caseDate) >= DateOrd(ParseDate(c.v))
    [] c.k = "dateTo" -> DateOrd(row.caseDate) <= DateOrd(ParseDate(c.v))

\* variant: the date bounds compared with gt and lt
EvalCondition_ExclusiveDates(row, c) ==
  CASE c.k = "search" ->
         \/ ILike(row.expedientNumber, c.v)
         \/ ILike(row.crimeType, c.v)
         \/ ILike(row.victim, c.v)
    [] c.k = "crimeType" -> row.crimeType = c.v
    [] c.k = "dateFrom" -> DateOrd(row.caseDate) > DateOrd(ParseDate(c.v))
    [] c.k = "dateTo" -> DateOrd(row.caseDate) < DateOrd(ParseDate(c.v))

\* the conditions of getCyberCases: ILIKE over three columns, eq, gte, lte
EvalCondition(row, c) ==
  CASE c.k = "search" ->
         \/ ILike(row.expedientNumber, c.v)
         \/ ILike(row.crimeType, c.v)
         \/ ILike(row.victim, c.v)
    [] c.k = "crimeType" -> row.crimeType = c.v
    [] c.k = "dateFrom" -> DateOrd(row.caseDate) >= DateOrd(ParseDate(c.v))
    [] c.k = "dateTo" -> DateOrd(row.caseDate) <= DateOrd(ParseDate(c.v))

\* variant: the conditions joined with or(...)
WhereClause_AnyCondition(row, conds) ==
  IF Len(conds) > 0
  THEN \E i \in 1..Len(conds) : EvalCondition(row, conds[i])
  ELSE TRUE

\* whereClause = conditions.length > 0 ? and(...conditions) : undefined
WhereClause(row, conds) ==
  IF Len(conds) > 0
  THEN \A i \in 1..Len(conds) : EvalCondition(row, conds[i])
  ELSE TRUE

\* a date bound that is not a date makes both selects fail
WhereError(conds) ==
  \E i \in 1..Len(conds) :
    conds[i].k \in {"dateFrom", "dateTo"} /\ ~ParseDate(conds[i].v).ok

MatchedIds(st, a) ==
  {i \in DOMAIN st : WhereClause(st[i], WhereConditions(a))}

\* variant: the total taken from the rows of the page
CountQuery_OfPage(st, a) ==
  LET n == Cardinality({i \in DOMAIN st : WhereClause(st[i], WhereConditions(a))})
      rest == IF a.offset >= n THEN 0 ELSE n - a.offset
  IN IF rest > a.limit THEN a.limit ELSE rest

\* variant: the count select without the where clause
CountQuery_NoWhere(st, a) == Cardinality(DOMAIN st)

\* select count(*) ... where whereClause
CountQuery(st, a) == Cardinality(MatchedIds(st, a))

\* variant: orderBy(asc(createdAt))
Orderings_Ascending(st, ids) ==
  LET n == Cardinality(ids)
  IN {o \in [1..n -> ids] :
        /\ \A i, j \in 1..n : i # j => o[i] # o[j]
        /\ \A i, j \in 1..n : i < j => st[o[i]].createdAt <= st[o[j]].createdAt}

\* orderBy(desc(createdAt)): every arrangement of the matched rows in
\* which createdAt never increases; rows with equal createdAt come in an
\* order the store is free to choose at each query
Orderings(st, ids) ==
  LET n == Cardinality(ids)
  IN {o \in [1..n -> ids] :
        /\ \A i, j \in 1..n : i # j => o[i] # o[j]
        /\ \A i, j \in 1..n : i < j => st[o[i]].createdAt >= st[o[j]].createdAt}

\* variant: .offset(offset) without .limit(limit)
PageSlice_NoLimit(o, limit, offset) ==
  IF offset >= Len(o) THEN <<>> ELSE SubSeq(o, offset + 1, Len(o))

\* .limit(limit).offset(offset) applied to an ordered result
PageSlice(o, limit, offset) ==
  IF offset >= Len(o) \/ limit = 0 THEN <<>>
  ELSE SubSeq(o, offset + 1, IF offset + limit > Len(o) THEN Len(o) ELSE offset + limit)

\* variant: delete without the where clause
DeleteCyberCase_All(st, id) == <<>>

\* variant: the row is kept (a delete that only marks)
DeleteCyberCase_Keep(st, id) == st

\* DatabaseStorage.deleteCyberCase: delete ... where id = $1
DeleteCyberCase(st, id) == [i \in DOMAIN st \ {id} |-> st[i]]

RECURSIVE SumAmount(_, _)
SumAmount(st, ids) ==
  IF ids = {} THEN 0
  ELSE LET i == CHOOSE x \in ids : TRUE
       IN st[i].stolenAmount + SumAmount(st, ids \ {i})

\* variant: SUM(stolen_amount) without COALESCE, NULL over no rows
TotalStats_NoCoalesce(st) ==
  [totalCases |-> Cardinality(DOMAIN st),
   totalAmount |-> IF DOMAIN st = {} THEN <<"n", "u", "l", "l">>
                   ELSE FormatNumeric(SumAmount(st, DOMAIN st))]

\* select count(*), COALESCE(SUM(stolen_amount), 0) from cyber_cases
TotalStats(st) ==
  [totalCases |-> Cardinality(DOMAIN st),
   totalAmount |-> IF DOMAIN st = {} THEN <<"0">>
                   ELSE FormatNumeric(SumAmount(st, DOMAIN st))]

\* variant: every case that is not resolved counts as active
ActiveStats_NotResolved(st) ==
  Cardinality({i \in DOMAIN st : st[i].investigationStatus # "Completado"})

\* select count(*) where investigation_status IN ('Pendiente', 'En proceso')
ActiveStats(st) ==
  Cardinality({i \in DOMAIN st :
                 st[i].investigationStatus \in {"Pendiente", "En proceso"}})

\* select count(*) where investigation_status = 'Completado'
ResolvedStats(st) ==
  Cardinality({i \in DOMAIN st : st[i].investigationStatus = "Completado"})

\* variant: the months of every year
MonthlyCasesQuery_AnyYear(st, year) ==
  {[month |-> m, count |-> Cardinality({i \in DOMAIN st : st[i].caseDate.m = m})] :
     m \in {st[i].caseDate.m : i \in DOMAIN st}}

\* select EXTRACT(MONTH FROM case_date), count(*) where EXTRACT(YEAR FROM
\* case_date) = EXTRACT(YEAR FROM CURRENT_DATE) group by the month: one row
\* for each month that has a case
MonthlyCasesQuery(st, year) ==
  LET inYear == {i \in DOMAIN st : st[i].caseDate.y = year}
  IN {[month |-> m,
       count |-> Cardinality({i \in inYear : st[i].caseDate.m = m})] :
        m \in {st[i].caseDate.m : i \in inYear}}

\* Array(12).fill(0), then monthlyData[item.month - 1] = item.count
MonthlyData(rows) ==
  [k \in 1..12 |->
     IF \E r \in rows : r.month = k
     THEN (CHOOSE r \in rows : r.month = k).count
     ELSE 0]

\* variant: only the crime types of more than one case (having count > 1)
CrimeTypeGroups_Repeated(st) ==
  {g \in {[type |-> t, count |-> Cardinality({i \in DOMAIN st : st[i].crimeType = t})] :
            t \in {st[i].crimeType : i \in DOMAIN st}} : g.count > 1}

\* select crime_type, count(*) group by crime_type
CrimeTypeGroups(st) ==
  {[type |-> t, count |-> Cardinality({i \in DOMAIN st : st[i].crimeType = t})] :
     t \in {st[i].crimeType : i \in DOMAIN st}}

\* orderBy(desc(count())): every arrangement of the groups in which the
\* count never increases; groups of equal count come in an order the store
\* is free to choose
CrimeTypeOrderings(groups) ==
  LET n == Cardinality(groups)
  IN {o \in [1..n -> groups] :
        /\ \A i, j \in 1..n : i # j => o[i] # o[j]
        /\ \A i, j \in 1..n : i < j => o[i].count >= o[j].count}

(* ------------------------------- inputs ------------------------------- *)

Date_2025_01_15 == <<"2", "0", "2", "5", "-", "0", "1", "-", "1", "5">>
Date_2025_02_10 == <<"2", "0", "2", "5", "-", "0", "2", "-", "1", "0">>
Date_2024_12_31 == <<"2", "0", "2", "4", "-", "1", "2", "-", "3", "1">>
Date_Bad == <<"2", "0", "2", "5", "-", "1", "3", "-", "0", "1">>

\* request bodies of POST /api/cyber-cases
CreateBodies ==
  << \* a complete case
     [caseDate |-> JStr(Date_2025_01_15),
      expedientNumber |-> JStr(<<"E", "1">>),
      crimeType |-> JStr(<<"P", "h">>),
      senderAccountData |-> JStr("sender"),
      victim |-> JStr(<<"A", "b">>),
      receiverAccountData |-> JStr("receiver"),
      investigationStatus |-> JStr("Pendiente"),
      stolenAmount |-> JStr(<<"1", "5", "0", ".", "5", "0">>)],
     \* no investigationStatus; server-managed keys supplied by the client
     [caseDate |-> JStr(Date_2025_02_10),
      expedientNumber |-> JStr(<<"e", "2">>),
      crimeType |-> JStr(<<"M", "a">>),
      senderAccountData |-> JStr("sender"),
      victim |-> JStr(<<"e", "m">>),
      receiverAccountData |-> JStr("receiver"),
      stolenAmount |-> JStr(<<"2", "0">>),
      createdBy |-> JStr("client")],
     \* the expedient number of the first body, a negative amount
     [caseDate |-> JStr(Date_2024_12_31),
      expedientNumber |-> JStr(<<"E", "1">>),
      crimeType |-> JStr(<<"p", "h">>),
      senderAccountData |-> JStr("sender"),
      victim |-> JStr(<<"A", "b">>),
      receiverAccountData |-> JStr("receiver"),
      investigationStatus |-> JStr("Completado"),
      stolenAmount |-> JStr(<<"-", "5">>)],
     \* victim missing
     [caseDate |-> JStr(Date_2025_01_15),
      expedientNumber |-> JStr(<<"E", "3">>),
      crimeType |-> JStr(<<"P", "h">>),
      senderAccountData |-> JStr("sender"),
      receiverAccountData |-> JStr("receiver"),
      stolenAmount |-> JStr(<<"1">>)],
     \* a date the store cannot read
     [caseDate |-> JStr(Date_Bad),
      expedientNumber |-> JStr(<<"E", "3">>),
      crimeType |-> JStr(<<"P", "h">>),
      senderAccountData |-> JStr("sender"),
      victim |-> JStr(<<"A", "b">>),
      receiverAccountData |-> JStr("receiver"),
      stolenAmount |-> JStr(<<"1">>)],
     \* an amount that is not a number
     [caseDate |-> JStr(Date_2025_01_15),
      expedientNumber |-> JStr(<<"E", "3">>),
      crimeType |-> JStr(<<"P", "h">>),
      senderAccountData |-> JStr("sender"),
      victim |-> JStr(<<"A", "b">>),
      receiverAccountData |-> JStr("receiver"),
      stolenAmount |-> JStr(<<"a">>)],
     \* an amount sent as a JSON number
     [caseDate |-> JStr(Date_2025_01_15),
      expedientNumber |-> JStr(<<"E", "3">>),
      crimeType |-> JStr(<<"P", "h">>),
      senderAccountData |-> JStr("sender"),
      victim |-> JStr(<<"A", "b">>),
      receiverAccountData |-> JStr("receiver"),
      stolenAmount |-> JNum(<<"1">>)] >>

\* request bodies of PUT /api/cyber-cases/:id
UpdateBodies ==
  << [expedientNumber |-> JStr(<<"E", "1">>)],
     [stolenAmount |-> JStr(<<"-", "1">>)],
     [stolenAmount |-> JNum(<<"5">>)],
     [stolenAmount |-> JStr(<<"a">>)] >>

\* request bodies of PUT that also name keys the server manages
ManagedKeyBodies ==
  << [investigationStatus |-> JStr("Rechazado"),
      createdBy |-> JStr("client"),
      id |-> JStr("0")],
     [victim |-> JStr(<<"e", "m">>),
      investigationStatus |-> JStr("En proceso"),
      stolenAmount |-> JStr(<<"7", ".", "2", "5">>),
      updatedAt |-> JStr("never")] >>

\* the years CURRENT_DATE can fall in
Years == {2024, 2025, 2026}

\* query-string values: absent, or a text
Absent == [present |-> FALSE, s |-> <<>>]
Q(s) == [present |-> TRUE, s |-> s]

Numeral(n) == <<CHOOSE c \in Digits : DigitVal[c] = n>>

PageInputs == {Absent} \cup {Q(Numeral(n)) : n \in 0..(MaxId + 1)}
LimitInputs == {Absent, Q(<<"0">>), Q(<<"1">>), Q(<<"2">>)}
SearchInputs == {Absent, Q(<<"e">>), Q(<<"_">>)}
CrimeTypeInputs == {Absent, Q(<<"P", "h">>)}
DateFromInputs == {Absent, Q(Date_2025_01_15)}
DateToInputs == {Absent, Q(Date_2025_01_15), Q(Date_Bad)}

\* requests that send a filter as the empty text
EmptyFilterQueries ==
  [page : {Absent}, limit : {Absent}, search : {Q(<<>>)},
   crimeType : {Absent, Q(<<>>), Q(<<"P", "h">>)}, dateFrom : {Absent},
   dateTo : {Absent}]
  \cup
  [page : {Absent}, limit : {Absent}, search : {Absent, Q(<<"e">>)},
   crimeType : {Q(<<>>)}, dateFrom : {Absent}, dateTo : {Absent}]
  \cup
  [page : {Absent}, limit : {Absent}, search : {Absent},
   crimeType : {Absent}, dateFrom : {Q(<<>>)},
   dateTo : {Absent, Q(<<>>), Q(Date_2025_01_15)}]
  \cup
  [page : {Absent}, limit : {Absent}, search : {Absent},
   crimeType : {Absent}, dateFrom : {Q(Date_2025_01_15)},
   dateTo : {Q(<<>>)}]

\* every combination of the four filters, a crime type that is a part or
\* a case variant of a stored one, and a date range that starts after it
\* ends or has no end; first page of the default size
FilterQueries ==
  [page : {Absent}, limit : {Absent}, search : SearchInputs,
   crimeType : CrimeTypeInputs, dateFrom : DateFromInputs,
   dateTo : DateToInputs]
  \cup
  [page : {Absent}, limit : {Absent}, search : {Absent},
   crimeType : {Q(<<"P">>), Q(<<"p", "h">>)}, dateFrom : {Absent},
   dateTo : {Absent}]
  \cup
  [page : {Absent}, limit : {Absent}, search : {Absent},
   crimeType : {Absent}, dateFrom : {Q(Date_2025_02_10)},
   dateTo : {Absent, Q(Date_2025_01_15)}]

\* every page of size 1, and the default, empty and two-row page sizes at
\* the default, zeroth and second page, with and without a filter
PagingQueries ==
  [page : PageInputs, limit : {Q(<<"1">>)}, search : {Absent},
   crimeType : CrimeTypeInputs, dateFrom : {Absent}, dateTo : {Absent}]
  \cup
  [page : {Absent, Q(<<"0">>), Q(<<"2">>)}, limit : LimitInputs \ {Q(<<"1">>)},
   search : {Absent}, crimeType : CrimeTypeInputs, dateFrom : {Absent},
   dateTo : {Absent}]

\* page and limit written as a word, as a numeral after a space or a
\* no-break space and as a hexadecimal numeral
OddPagingQueries ==
  [page : {Q(<<"a">>), Q(<<" ", "2">>), Q(<<" ", "2">>)},
   limit : {Q(<<"1">>), Q(<<"0", "x", "2">>), Q(<<"z">>)},
   search : {Absent}, crimeType : {Absent}, dateFrom : {Absent},
   dateTo : {Absent}]

\* the request the client sends when it opens the case table
PlainQueries ==
  [page : {Q(<<"1">>)}, limit : {Absent}, search : {Absent},
   crimeType : {Absent}, dateFrom : {Absent}, dateTo : {Absent}]

\* the client's page count: Math.ceil(total / limit), limit >= 1
TotalPages(total, limit) == (total + limit - 1) \div limit

(* ------------------------------ handlers ------------------------------ *)

\* a query-string value is used only when it is a non-empty text
Truthy(v) == v.present /\ v.s # <<>>

DefaultPage == 1
DefaultLimit == 10

\* GET /api/cyber-cases: the parameters handed to storage.getCyberCases,
\* with the offset getCyberCases derives from them. parseInt gives NaN for
\* a text that starts with no numeral, and the offset of a NaN page or
\* limit is NaN: nan names the parameters that are NaN, written 0 here
ListArgs(q) ==
  LET page == IF Truthy(q.page) THEN ParseInt(q.page.s)
              ELSE [nan |-> FALSE, n |-> DefaultPage]
      limit == IF Truthy(q.limit) THEN ParseInt(q.limit.s)
               ELSE [nan |-> FALSE, n |-> DefaultLimit]
      nan == (IF page.nan THEN {"page"} ELSE {})
               \cup (IF limit.nan THEN {"limit"} ELSE {})
  IN [page |-> IF page.nan THEN 0 ELSE page.n,
      limit |-> IF limit.nan THEN 0 ELSE limit.n,
      offset |-> IF nan # {} THEN 0 ELSE (page.n - 1) * limit.n,
      nan |-> IF nan # {} THEN nan \cup {"offset"} ELSE {},
      search |-> IF Truthy(q.search) THEN q.search.s ELSE <<>>,
      crimeType |-> IF Truthy(q.crimeType) THEN q.crimeType.s ELSE <<>>,
      dateFrom |-> IF Truthy(q.dateFrom) THEN q.dateFrom.s ELSE <<>>,
      dateTo |-> IF Truthy(q.dateTo) THEN q.dateTo.s ELSE <<>>]

FilterOf(a) == [a EXCEPT !.page = 0, !.limit = 0, !.offset = 0, !.nan = {}]

\* the run of limit-1 pages 1, 2, ... a client has fetched with one filter
\* since the store last changed
ScanAfter(a, status, ids) ==
  IF status = 200 /\ a.limit = 1 /\ a.page = 1
    THEN [filter |-> FilterOf(a), pages |-> <<ids>>]
  ELSE IF /\ status = 200
          /\ a.limit = 1
          /\ scan.pages # <<>>
          /\ scan.filter = FilterOf(a)
          /\ a.page = Len(scan.pages) + 1
          /\ scan.pages[Len(scan.pages)] # <<>>
    THEN [scan EXCEPT !.pages = Append(@, ids)]
  ELSE NoScan

\* the times the store's now() can return: its clock does not run backwards
Times == clock..MaxClock

\* the times new Date() can return on the server. The server's clock is
\* not the store's, a request reads it before its statement is sent, and
\* nothing orders what it shows with the times the store has stamped
ServerTimes == 1..MaxClock

\* the date and the amount of a statement are texts whose conversion by
\* the store is computed
Convertible(data) ==
  /\ "caseDate" \in DOMAIN data => ParseDate(data["caseDate"].s).known
  /\ "stolenAmount" \in DOMAIN data => ParseNumeric(data["stolenAmount"].s).known

\* the date bounds of the selects are texts whose conversion is computed
ConvertibleBounds(a) ==
  /\ a.dateFrom # <<>> => ParseDate(a.dateFrom).known
  /\ a.dateTo # <<>> => ParseDate(a.dateTo).known

\* GET /api/cyber-cases/:id, from the select of storage.getCyberCase on
GetCase(id) ==
  /\ resp' = Response("get", IF id \in DOMAIN store THEN 200 ELSE 404, id, "")
  /\ UNCHANGED <<store, nextId, clock, scan>>

\* POST /api/cyber-cases with the userId of the session: the body is
\* validated and the insert runs
CreateCase(userId, body) ==
  LET parsed == ZodParse(body, FALSE)
  IN IF ~parsed.ok
     THEN \* ZodError: 400
          /\ resp' = Response("create", 400, 0, "ZodError")
          /\ UNCHANGED <<store, nextId, clock, scan>>
     ELSE /\ Convertible(parsed.data)
          /\ IF BindError(parsed.data) \/ UniqueViolation(store, 0, parsed.data)
             THEN \* the insert is refused by the store: any other error, 500
                  /\ resp' = Response("create", 500, 0, StoreError(store, 0, parsed.data))
                  /\ UNCHANGED <<store, nextId, clock, scan>>
             ELSE \* id from gen_random_uuid(), createdAt and updatedAt from now()
                  /\ nextId <= MaxId
                  /\ \E now \in Times :
                       /\ store' = store @@ (nextId :> InsertedRow(parsed.data, userId, now))
                       /\ clock' = now
                  /\ nextId' = nextId + 1
                  /\ resp' = Response("create", 201, nextId, "")
                  /\ scan' = NoScan

\* what the update statement of a validated body meets in table st
UpdateOutcome(st, id, data) ==
  IF BindError(data) \/ (id \in DOMAIN st /\ UniqueViolation(st, id, data))
    THEN "refused"
  ELSE IF id \in DOMAIN st THEN "applied"
  ELSE "missing"

\* PUT /api/cyber-cases/:id: the body is validated and the update runs.
\* now is what new Date() returned when storage.updateCyberCase built the
\* statement, before it was sent
UpdateCase(id, body, now) ==
  LET parsed == ZodParse(body, TRUE)
  IN IF ~parsed.ok
     THEN /\ resp' = Response("update", 400, id, "ZodError")
          /\ UNCHANGED <<store, nextId, clock, scan>>
     ELSE /\ Convertible(parsed.data)
          /\ CASE UpdateOutcome(store, id, parsed.data) = "refused" ->
                    /\ resp' = Response("update", 500, id,
                                        StoreError(store, id, parsed.data))
                    /\ UNCHANGED <<store, nextId, clock, scan>>
               [] UpdateOutcome(store, id, parsed.data) = "applied" ->
                    /\ store' = [store EXCEPT ![id] = UpdatedRow(@, parsed.data, now)]
                    /\ resp' = Response("update", 200, id, "")
                    /\ scan' = NoScan
                    /\ UNCHANGED <<nextId, clock>>
               [] OTHER ->
                    \* returning() is empty: res.json(undefined), status 200
                    /\ resp' = Response("update", 200, id, "")
                    /\ UNCHANGED <<store, nextId, clock, scan>>

\* DELETE /api/cyber-cases/:id, from the delete statement on
DeleteCase(id) ==
  /\ store' = DeleteCyberCase(store, id)
  /\ resp' = Response("delete", 204, id, "")
  /\ scan' = IF id \in DOMAIN store THEN NoScan ELSE scan
  /\ UNCHANGED <<nextId, clock>>

(* ------------------------- requests in flight ------------------------- *)

\* a slot that can take a new request
Free(s) == pending[s].pc # "sent"

\* no request awaits the store
Quiet == \A s \in Slots : Free(s)

\* the slot of a request that has answered
Released(s) == [pending EXCEPT ![s] = Idle]

\* no update statement has yet run on the row while the request waited
NoPrior == [set |-> FALSE, data |-> <<>>, now |-> 0, before |-> <<>>]

\* PUT /api/cyber-cases/:id up to its await: the body is validated and
\* the update statement is built, updatedAt read from the server's clock
\* as now, and sent
BeginUpdate(s, id, body, now) ==
  LET parsed == ZodParse(body, TRUE)
  IN /\ IF ~parsed.ok
        THEN /\ resp' = Response("update", 400, id, "ZodError")
             /\ UNCHANGED pending
        ELSE /\ Free(s)
             /\ Convertible(parsed.data)
             /\ pending' = [pending EXCEPT ![s] =
                              [op |-> "update", pc |-> "sent", id |-> id,
                               body |-> body, now |-> now, prior |-> NoPrior]]
             /\ resp' = Awaited
     /\ UNCHANGED <<store, nextId, clock, scan, accounts>>

\* the store runs the update statement of a request, which then answers.
\* The requests that still wait to update the same row take note, as
\* prior, of the statement that has just changed it and of the row it
\* met; the slot of a request that ran after such a statement keeps, as
\* overtook, the times the two had read
ExecUpdate(s) ==
  LET r == pending[s]
      data == ZodParse(r.body, TRUE).data
      applied == UpdateOutcome(store, r.id, data) = "applied"
  IN /\ r.op = "update"
     /\ r.pc = "sent"
     /\ UpdateCase(r.id, r.body, r.now)
     /\ pending' =
          [t \in Slots |->
             IF t = s
             THEN (IF r.prior.set /\ applied
                   THEN [op |-> "none", pc |-> "idle",
                         overtook |-> [id |-> r.id, now |-> r.now,
                                       prior |-> r.prior.now]]
                   ELSE Idle)
             ELSE IF applied /\ pending[t].op = "update" /\ pending[t].id = r.id
             THEN [pending[t] EXCEPT
                     !.prior = [set |-> TRUE, data |-> data, now |-> r.now,
                                before |-> store[r.id]]]
             ELSE pending[t]]
     /\ UNCHANGED accounts

\* GET /api/cyber-cases up to its await: the parameters are read and the
\* two selects of getCyberCases are sent together (Promise.all). tracked
\* tells that the request is one of the client whose pages scan records.
\* Of a negative limit nothing is said
BeginList(s, q, tracked) ==
  /\ Free(s)
  /\ "limit" \in ListArgs(q).nan \/ ListArgs(q).limit >= 0
  /\ ConvertibleBounds(ListArgs(q))
  /\ pending' = [pending EXCEPT ![s] =
                   [op |-> "list", pc |-> "sent", args |-> ListArgs(q),
                    page |-> "sent", count |-> "sent", ids |-> <<>>, total |-> 0,
                    snap |-> <<>>, tracked |-> tracked, answered |-> FALSE]]
  /\ resp' = Awaited
  /\ UNCHANGED <<store, nextId, clock, scan, accounts>>

\* the search of a select is one whose case folding is computed: the
\* pattern and the columns searched hold characters of Ascii alone
Foldable(st, a) ==
  a.search # <<>> =>
    /\ Range(a.search) \subseteq Ascii
    /\ \A i \in DOMAIN st :
         \A f \in {"expedientNumber", "crimeType", "victim"} :
           Range(st[i][f]) \subseteq Ascii

\* the response to a list request: res.json({cases, total}) when both
\* selects have returned, 500 when a select was refused
ListSettled(r, err) ==
  IF err # ""
  THEN [Response("list", 500, 0, err) EXCEPT !.args = r.args]
  ELSE [Response("list", 200, 0, "") EXCEPT
          !.args = r.args, !.ids = r.ids, !.total = r.total]

\* a select of the request has returned, refused with err or with its
\* rows. Promise.all is rejected by the first select that is refused: the
\* request answers 500 at once, the other select still with the store,
\* and what that one returns later is dropped. When no select is refused
\* the request answers once both have returned
SelectReturned(s, r, err) ==
  IF r.answered
  THEN /\ pending' = Released(s)
       /\ UNCHANGED <<resp, scan>>
  ELSE IF err # "" \/ (r.page = "done" /\ r.count = "done")
  THEN /\ pending' = IF r.page = "sent" \/ r.count = "sent"
                     THEN [pending EXCEPT ![s] = [r EXCEPT !.answered = TRUE]]
                     ELSE Released(s)
       /\ resp' = ListSettled(r, err)
       /\ scan' = IF r.tracked
                  THEN ScanAfter(resp'.args, resp'.status, resp'.ids)
                  ELSE scan
  ELSE /\ pending' = [pending EXCEPT ![s] = r]
       /\ UNCHANGED <<resp, scan>>

\* .limit(limit).offset(offset) as the query builder writes it: no LIMIT
\* for a limit that is NaN, no OFFSET for an offset that is NaN
SelectPage(o, a) ==
  IF "limit" \in a.nan THEN o
  ELSE PageSlice(o, a.limit, IF "offset" \in a.nan THEN 0 ELSE a.offset)

\* the store runs the page select of a request: a parameter that is no
\* date is refused when the statement is bound, a negative OFFSET when it
\* runs. snap records the table the first of the two selects read
ReadPage(s) ==
  LET r == pending[s]
  IN /\ r.op = "list"
     /\ r.pc = "sent"
     /\ r.page = "sent"
     /\ Foldable(store, r.args)
     /\ IF WhereError(WhereConditions(r.args))
        THEN SelectReturned(s, [r EXCEPT !.page = "error"], "InvalidInput")
        ELSE IF r.args.offset < 0
        THEN SelectReturned(s, [r EXCEPT !.page = "error"], "NegativeOffset")
        ELSE \E o \in Orderings(store, MatchedIds(store, r.args)) :
               SelectReturned(s, [r EXCEPT
                                    !.page = "done",
                                    !.ids = SelectPage(o, r.args),
                                    !.snap = IF r.count = "sent" THEN store ELSE @],
                              "")
     /\ UNCHANGED <<store, nextId, clock, accounts>>

\* the store runs the count select of a request
ReadCount(s) ==
  LET r == pending[s]
  IN /\ r.op = "list"
     /\ r.pc = "sent"
     /\ r.count = "sent"
     /\ Foldable(store, r.args)
     /\ IF WhereError(WhereConditions(r.args))
        THEN SelectReturned(s, [r EXCEPT !.count = "error"], "InvalidInput")
        ELSE SelectReturned(s, [r EXCEPT
                                  !.count = "done",
                                  !.total = CountQuery(store, r.args),
                                  !.snap = IF r.page = "sent" THEN store ELSE @],
                            "")
     /\ UNCHANGED <<store, nextId, clock, accounts>>

\* DatabaseStorage.getDashboardStats(userId): the results the store can
\* give when the five selects read the tables reads[1] .. reads[5], the
\* store's CURRENT_DATE being in year at the fourth
GetDashboardStats(reads, userId, year) ==
  {[totalCases |-> TotalStats(reads[1]).totalCases,
    totalAmount |-> TotalStats(reads[1]).totalAmount,
    activeCases |-> ActiveStats(reads[2]),
    resolvedCases |-> ResolvedStats(reads[3]),
    monthlyCases |-> MonthlyData(MonthlyCasesQuery(reads[4], year)),
    crimeTypeStats |-> o] : o \in CrimeTypeOrderings(CrimeTypeGroups(reads[5]))}

\* GET /api/dashboard/stats up to its first await
BeginStats(s) ==
  /\ Free(s)
  /\ pending' = [pending EXCEPT ![s] =
                   [op |-> "stats", pc |-> "sent", query |-> 1, year |-> 0,
                    stats |-> NoStats, counted |-> {}]]
  /\ resp' = Awaited
  /\ UNCHANGED <<store, nextId, clock, scan, accounts>>

\* the store runs the next of the five selects getDashboardStats awaits
\* one after the other, its CURRENT_DATE being in year; after the fifth
\* the request answers. counted records the ids the first select counted
StatsQuery(s, year) ==
  LET r == pending[s]
  IN /\ r.op = "stats"
     /\ r.pc = "sent"
     /\ CASE r.query = 1 ->
               /\ pending' = [pending EXCEPT ![s] =
                                [r EXCEPT !.query = 2,
                                          !.stats.totalCases = TotalStats(store).totalCases,
                                          !.stats.totalAmount = TotalStats(store).totalAmount,
                                          !.counted = DOMAIN store]]
               /\ UNCHANGED resp
          [] r.query = 2 ->
               /\ pending' = [pending EXCEPT ![s] =
                                [r EXCEPT !.query = 3,
                                          !.stats.activeCases = ActiveStats(store)]]
               /\ UNCHANGED resp
          [] r.query = 3 ->
               /\ pending' = [pending EXCEPT ![s] =
                                [r EXCEPT !.query = 4,
                                          !.stats.resolvedCases = ResolvedStats(store)]]
               /\ UNCHANGED resp
          [] r.query = 4 ->
               /\ pending' = [pending EXCEPT ![s] =
                                [r EXCEPT !.query = 5,
                                          !.year = year,
                                          !.stats.monthlyCases =
                                             MonthlyData(MonthlyCasesQuery(store, year))]]
               /\ UNCHANGED resp
          [] OTHER ->
               /\ \E o \in CrimeTypeOrderings(CrimeTypeGroups(store)) :
                    resp' = [Response("stats", 200, 0, "") EXCEPT
                               !.year = r.year,
                               !.stats = [r.stats EXCEPT !.crimeTypeStats = o]]
               /\ pending' = Released(s)
     /\ UNCHANGED <<store, nextId, clock, scan, accounts>>

(* --------------------------- specifications --------------------------- *)

\* isAuthenticated: the session of the request holds a userId
IsAuthenticated(sid) == sessions[sid] # NoUser

\* the callers that hold a session; a request of one of them that takes
\* no slot; and such a request sent by clients that wait for the response
\* to a request before they send the next
Callers == {sessions[sid] : sid \in {x \in SessionIds : IsAuthenticated(x)}}
Handled == Callers # {} /\ UNCHANGED <<accounts, pending>>
Alone == Quiet /\ Handled

\* the store answering the requests in flight
ReadPageAny == ReadPage(1)
ReadCountAny == ReadCount(1)
StatsQueryAny == \E year \in Years : StatsQuery(1, year)

Get == Alone /\ \E id \in RequestIds : GetCase(id)
Delete == Alone /\ \E id \in RequestIds : DeleteCase(id)

\* the mutation service under every body and caller
List == Callers # {} /\ \E q \in PlainQueries : BeginList(1, q, FALSE)
Create ==
  Alone /\ \E u \in Callers, b \in 1..Len(CreateBodies) : CreateCase(u, CreateBodies[b])
Update ==
  /\ Alone
  /\ \E id \in RequestIds, b \in 1..Len(UpdateBodies), now \in ServerTimes :
       UpdateCase(id, UpdateBodies[b], now)

Next ==
  \/ List \/ ReadPageAny \/ ReadCountAny
  \/ Get \/ Create \/ Update \/ Delete

Spec == Init /\ [][Next]_vars

\* the query executor under every filter and page request, over the
\* stores one caller builds
CreateOne ==
  /\ Alone
  /\ "admin" \in Callers
  /\ \E b \in 1..Len(CreateBodies) : CreateCase("admin", CreateBodies[b])
UpdateOne ==
  /\ Alone
  /\ \E id \in RequestIds, now \in ServerTimes : UpdateCase(id, UpdateBodies[1], now)

\* the bodies of a create that are well formed: two cases and a third
\* that repeats the expedient number of the first
CreateWellFormed ==
  /\ Alone
  /\ "admin" \in Callers
  /\ \E b \in 1..3 : CreateCase("admin", CreateBodies[b])

ListFiltered == Callers # {} /\ \E q \in FilterQueries : BeginList(1, q, FALSE)
NextFilter ==
  \/ ListFiltered \/ ReadPageAny \/ ReadCountAny
  \/ Get \/ CreateWellFormed \/ UpdateOne \/ Delete
FilterSpec == Init /\ [][NextFilter]_vars

\* the pages of one client recorded as it fetches them
ListPaged ==
  Callers # {} /\ \E q \in PagingQueries \cup OddPagingQueries : BeginList(1, q, TRUE)
NextPaging ==
  \/ ListPaged \/ ReadPageAny \/ ReadCountAny
  \/ Get \/ CreateOne \/ UpdateOne \/ Delete
PagingSpec == Init /\ [][NextPaging]_vars

\* the mutation service and the dashboard over the stores one caller
\* builds with the bodies that are well formed, the record created first
\* updated
UpdateManaged ==
  /\ Alone
  /\ \E b \in 1..Len(ManagedKeyBodies), now \in ServerTimes :
       UpdateCase(1, ManagedKeyBodies[b], now)
Stats == Callers # {} /\ BeginStats(1)
NextDashboard == Stats \/ StatsQueryAny \/ CreateWellFormed \/ UpdateManaged \/ Delete
DashboardSpec == Init /\ [][NextDashboard]_vars

\* the query executor under every page request, each request on its own
ListOnce == Callers # {} /\ \E q \in PagingQueries : BeginList(1, q, FALSE)
NextPage ==
  \/ ListOnce \/ ReadPageAny \/ ReadCountAny
  \/ Get \/ CreateOne \/ UpdateOne \/ Delete
PageSpec == Init /\ [][NextPage]_vars

\* the query executor under requests that leave filters out or send them
\* empty
ListEmptyFilters ==
  /\ Callers # {}
  /\ \E q \in EmptyFilterQueries \cup PlainQueries : BeginList(1, q, FALSE)
NextEmptyFilter ==
  \/ ListEmptyFilters \/ ReadPageAny \/ ReadCountAny
  \/ Get \/ CreateOne \/ UpdateOne \/ Delete
EmptyFilterSpec == Init /\ [][NextEmptyFilter]_vars

\* the mutation service under the bodies it accepts, over the stores one
\* caller builds
UpdateAccepted ==
  /\ Alone
  /\ \E id \in RequestIds, b \in 1..2, now \in ServerTimes :
       UpdateCase(id, UpdateBodies[b], now)
NextOneCaller == Get \/ CreateWellFormed \/ UpdateAccepted \/ Delete
OneCallerSpec == Init /\ [][NextOneCaller]_vars

\* the life of a record under every caller: created from a body that is
\* well formed, read, updated by a body that names createdBy and id,
\* deleted
CreateByAny ==
  Alone /\ \E u \in Callers, b \in 1..3 : CreateCase(u, CreateBodies[b])
UpdateCreatedBy ==
  /\ Alone
  /\ \E id \in RequestIds, now \in ServerTimes :
       UpdateCase(id, ManagedKeyBodies[1], now)
NextLifecycle == CreateByAny \/ Get \/ UpdateCreatedBy \/ Delete
LifecycleSpec == Init /\ [][NextLifecycle]_vars

\* two updates in flight at a time over the one record a caller creates
CreateFirst ==
  /\ Handled
  /\ "admin" \in Callers
  /\ CreateCase("admin", CreateBodies[1])
BeginUpdateAny ==
  \E s \in Slots, id \in RequestIds, b \in 1..Len(ManagedKeyBodies),
     now \in ServerTimes :
    BeginUpdate(s, id, ManagedKeyBodies[b], now)
ExecUpdateAny == \E s \in Slots : ExecUpdate(s)
NextUpdateRace == BeginUpdateAny \/ ExecUpdateAny \/ CreateFirst
UpdateRaceSpec == Init /\ [][NextUpdateRace]_vars

\* list requests of a client that searches
RaceQueries ==
  [page : {Absent}, limit : {Absent}, search : {Absent, Q(<<"b">>)},
   crimeType : {Absent}, dateFrom : {Absent}, dateTo : {Absent}]

\* one list request in flight while a caller creates, updates the record
\* created first and deletes
CreateValid ==
  /\ Handled
  /\ "admin" \in Callers
  /\ \E b \in 1..2 : CreateCase("admin", CreateBodies[b])
UpdateVictim ==
  /\ Handled
  /\ 1 \in DOMAIN store
  /\ \E now \in ServerTimes : UpdateCase(1, ManagedKeyBodies[2], now)
DeleteExisting == Handled /\ \E id \in DOMAIN store : DeleteCase(id)
BeginListAny == \E q \in RaceQueries : BeginList(1, q, FALSE)
NextListRace ==
  \/ BeginListAny \/ ReadPageAny \/ ReadCountAny
  \/ CreateValid \/ UpdateVictim \/ DeleteExisting
ListRaceSpec == Init /\ [][NextListRace]_vars

\* one statistics request in flight while a caller creates and deletes
BeginStatsAny == BeginStats(1)
StatsQueryNow == \E year \in Years : StatsQuery(1, year)
NextStatsRace == BeginStatsAny \/ StatsQueryNow \/ CreateValid \/ DeleteExisting
StatsRaceSpec == Init /\ [][NextStatsRace]_vars

(* --------------------------- authentication -------------------------- *)

\* storage.getUserByUsername: the rows of that username (none or one)
GetUserByUsername(table, username) == {u \in table : u.username = username}

\* credentials a client can post: a password can be left out of the body
UsernameInputs == {"admin", "maria.gonzalez", "jose.lopez", "nobody"}
PasswordInputs ==
  {[present |-> FALSE, s |-> ""], [present |-> TRUE, s |-> "admin123"],
   [present |-> TRUE, s |-> "investigador123"]}

\* variant: the isActive test left out
LoginRefused_IgnoreActive(found, password) ==
  \/ found = {}
  \/ \E user \in found : HashPassword(password.s) # user.password

\* POST /api/login: the condition under which the credentials are refused
\* (the password is hashed only when the user was found)
LoginRefused(found, password) ==
  \/ found = {}
  \/ \E user \in found :
       \/ HashPassword(password.s) # user.password
       \/ user.isActive # "true"

\* POST /api/login, from the select of storage.getUserByUsername to the
\* test of the credentials: refused, or on to the statements that record
\* the login
Login(sid, s, username, password) ==
  LET found == GetUserByUsername(users, username)
  IN /\ IF found # {} /\ ~password.present
        THEN \* createHash().update(undefined) throws: caught, 500
             /\ resp' = Response("login", 500, 0, "TypeError")
             /\ UNCHANGED pending
        ELSE IF LoginRefused(found, password)
        THEN /\ resp' = Response("login", 401, 0, "")
             /\ UNCHANGED pending
        ELSE /\ Free(s)
             /\ \E user \in found :
                  pending' = [pending EXCEPT ![s] =
                                [op |-> "login", pc |-> "sent",
                                 stmt |-> "updateUser", sid |-> sid,
                                 user |-> user.id]]
             /\ resp' = Awaited
     /\ UNCHANGED <<store, nextId, clock, scan, accounts>>

\* POST /api/login, await storage.updateUser(user.id, {lastLoginAt}): the
\* update has run, over the row of the user or over no row, and the
\* insert of storage.createUserSession is sent. No column the update sets
\* is read by a route
UpdateLastLogin(s) ==
  LET r == pending[s]
  IN /\ r.op = "login"
     /\ r.pc = "sent"
     /\ r.stmt = "updateUser"
     /\ pending' = [pending EXCEPT ![s].stmt = "createUserSession"]
     /\ UNCHANGED <<store, nextId, clock, resp, scan, accounts>>

\* storage.createUserSession: the store runs the insert.
\* user_sessions.user_id references users.id, so the insert is refused
\* when the user was deleted in the meantime: caught, 500. When it is
\* accepted the handler is still to resume
CreateUserSession(s) ==
  LET r == pending[s]
  IN /\ r.op = "login"
     /\ r.pc = "sent"
     /\ r.stmt = "createUserSession"
     /\ IF \E u \in users : u.id = r.user
        THEN /\ pending' = [pending EXCEPT ![s].stmt = "session"]
             /\ UNCHANGED resp
        ELSE /\ pending' = Released(s)
             /\ resp' = Response("login", 500, 0, "ForeignKeyViolation")
     /\ UNCHANGED <<store, nextId, clock, scan, accounts>>

\* POST /api/login, the rest: the handler resumes after the insert, sets
\* req.session.userId and answers. Nothing is asked of the users table
\* any more: a user deleted after the insert leaves a session that holds
\* the id of no user (the sessions table does not reference users)
OpenSession(s) ==
  LET r == pending[s]
  IN /\ r.op = "login"
     /\ r.pc = "sent"
     /\ r.stmt = "session"
     /\ sessions' = [sessions EXCEPT ![r.sid] = r.user]
     /\ resp' = Response("login", 200, 0, "")
     /\ pending' = Released(s)
     /\ UNCHANGED <<store, nextId, clock, scan, users, nextUser>>

\* POST and GET /api/logout up to the await of
\* storage.updateSessionLogout(req.sessionID); the route is not behind
\* isAuthenticated
Logout(sid, s) ==
  /\ Free(s)
  /\ pending' = [pending EXCEPT ![s] =
                   [op |-> "logout", pc |-> "sent",
                    stmt |-> "updateSessionLogout", sid |-> sid]]
  /\ resp' = Awaited
  /\ UNCHANGED <<store, nextId, clock, scan, accounts>>

\* storage.updateSessionLogout has run on the rows of user_sessions, which
\* no route reads back here, and req.session.destroy sends the delete of
\* the session
UpdateSessionLogout(s) ==
  LET r == pending[s]
  IN /\ r.op = "logout"
     /\ r.pc = "sent"
     /\ r.stmt = "updateSessionLogout"
     /\ pending' = [pending EXCEPT ![s].stmt = "destroy"]
     /\ UNCHANGED <<store, nextId, clock, resp, scan, accounts>>

\* the callback of req.session.destroy: the session is out of the sessions
\* table and the request answers
DestroySession(s) ==
  LET r == pending[s]
  IN /\ r.op = "logout"
     /\ r.pc = "sent"
     /\ r.stmt = "destroy"
     /\ sessions' = [sessions EXCEPT ![r.sid] = NoUser]
     /\ resp' = Response("logout", 200, 0, "")
     /\ pending' = Released(s)
     /\ UNCHANGED <<store, nextId, clock, scan, users, nextUser>>

\* isAuthenticated answering for the route: the handler is not called
Unauthorized(op) ==
  /\ resp' = Response(op, 401, 0, "Unauthorized")
  /\ UNCHANGED <<store, nextId, clock, scan, accounts, pending>>

\* a handler that has passed isAuthenticated sends its statement to the
\* store and awaits it
Sent(s, request) ==
  /\ Free(s)
  /\ pending' = [pending EXCEPT ![s] = request]
  /\ resp' = Awaited
  /\ UNCHANGED <<store, nextId, clock, scan, accounts>>

\* the case and statistics routes as registered: isAuthenticated tests the
\* session when the request arrives, then the handler runs, with userId =
\* req.session.userId, up to its first await
RouteStats(sid, s) ==
  IF IsAuthenticated(sid) THEN BeginStats(s) ELSE Unauthorized("stats")
RouteList(sid, s, q) ==
  IF IsAuthenticated(sid) THEN BeginList(s, q, FALSE) ELSE Unauthorized("list")
RouteGet(sid, s, id) ==
  IF IsAuthenticated(sid)
  THEN Sent(s, [op |-> "get", pc |-> "sent", id |-> id])
  ELSE Unauthorized("get")
RouteCreate(sid, s, body) ==
  IF ~IsAuthenticated(sid) THEN Unauthorized("create")
  ELSE IF ~ZodParse(body, FALSE).ok
  THEN CreateCase(sessions[sid], body) /\ UNCHANGED <<accounts, pending>>
  ELSE /\ Convertible(ZodParse(body, FALSE).data)
       /\ Sent(s, [op |-> "create", pc |-> "sent", userId |-> sessions[sid],
                    body |-> body])
RouteUpdate(sid, s, id, body, now) ==
  IF IsAuthenticated(sid)
  THEN BeginUpdate(s, id, body, now)
  ELSE Unauthorized("update")
RouteDelete(sid, s, id) ==
  IF IsAuthenticated(sid)
  THEN Sent(s, [op |-> "delete", pc |-> "sent", id |-> id])
  ELSE Unauthorized("delete")

\* the store runs the statement of a get, a create or a delete request,
\* which then answers
ExecGet(s) ==
  /\ pending[s].op = "get"
  /\ pending[s].pc = "sent"
  /\ GetCase(pending[s].id)
  /\ pending' = Released(s)
  /\ UNCHANGED accounts
ExecCreate(s) ==
  /\ pending[s].op = "create"
  /\ pending[s].pc = "sent"
  /\ CreateCase(pending[s].userId, pending[s].body)
  /\ pending' = Released(s)
  /\ UNCHANGED accounts
ExecDelete(s) ==
  /\ pending[s].op = "delete"
  /\ pending[s].pc = "sent"
  /\ DeleteCase(pending[s].id)
  /\ pending' = Released(s)
  /\ UNCHANGED accounts

\* request bodies of POST /api/users that insertUserSchema accepts, each
\* with an email of its own, and the isActive values PUT /api/users/:id
\* is sent
UserBodies == {[username |-> "nobody", password |-> "investigador123"]}
IsActiveInputs == {"false"}

\* the users a client names in PUT and in DELETE /api/users/:id
UserIdInputs == {"investigator"} \cup {NewUserId(n) : n \in 1..(nextUser - 1)}
DeletedUserInputs == {"investigator"}

\* POST /api/users up to its await: the password is hashed
RouteCreateUser(sid, s, body) ==
  IF IsAuthenticated(sid)
  THEN Sent(s, [op |-> "createUser", pc |-> "sent", username |-> body.username,
                password |-> HashPassword(body.password)])
  ELSE Unauthorized("createUser")

\* storage.createUser: the insert, refused when the username is taken
\* (unique); id from gen_random_uuid(), isActive "true" by default
ExecCreateUser(s) ==
  LET r == pending[s]
  IN /\ r.op = "createUser"
     /\ r.pc = "sent"
     /\ IF GetUserByUsername(users, r.username) # {}
        THEN /\ resp' = Response("createUser", 500, 0, "UniqueViolation")
             /\ UNCHANGED <<users, nextUser>>
        ELSE /\ nextUser <= MaxUser
             /\ users' = users \cup {[id |-> NewUserId(nextUser),
                                      username |-> r.username,
                                      password |-> r.password,
                                      isActive |-> "true"]}
             /\ nextUser' = nextUser + 1
             /\ resp' = Response("createUser", 200, 0, "")
     /\ pending' = Released(s)
     /\ UNCHANGED <<store, nextId, clock, scan, sessions>>

\* PUT /api/users/:id with a body of isActive alone, up to its await
RouteUpdateUser(sid, s, id, isActive) ==
  IF IsAuthenticated(sid)
  THEN Sent(s, [op |-> "updateUser", pc |-> "sent", id |-> id,
                isActive |-> isActive])
  ELSE Unauthorized("updateUser")

\* storage.updateUser: the update; when it met no row the handler takes
\* the password out of undefined, which throws: caught, 500
ExecUpdateUser(s) ==
  LET r == pending[s]
  IN /\ r.op = "updateUser"
     /\ r.pc = "sent"
     /\ IF \E u \in users : u.id = r.id
        THEN /\ users' = {IF u.id = r.id THEN [u EXCEPT !.isActive = r.isActive]
                          ELSE u : u \in users}
             /\ resp' = Response("updateUser", 200, 0, "")
        ELSE /\ resp' = Response("updateUser", 500, 0, "TypeError")
             /\ UNCHANGED users
     /\ pending' = Released(s)
     /\ UNCHANGED <<store, nextId, clock, scan, sessions, nextUser>>

\* DELETE /api/users/:id up to its await
RouteDeleteUser(sid, s, id) ==
  IF IsAuthenticated(sid)
  THEN Sent(s, [op |-> "deleteUser", pc |-> "sent", id |-> id])
  ELSE Unauthorized("deleteUser")

\* storage.deleteUser: delete ... where id = $1
ExecDeleteUser(s) ==
  LET r == pending[s]
  IN /\ r.op = "deleteUser"
     /\ r.pc = "sent"
     /\ users' = {u \in users : u.id # r.id}
     /\ resp' = Response("deleteUser", 204, 0, "")
     /\ pending' = Released(s)
     /\ UNCHANGED <<store, nextId, clock, scan, sessions, nextUser>>

\* a database that holds no session yet
AuthInit ==
  /\ store = <<>>
  /\ nextId = 1
  /\ clock = 1
  /\ resp = Awaited
  /\ scan = NoScan
  /\ sessions = [sid \in SessionIds |-> NoUser]
  /\ users = DefaultUsers
  /\ nextUser = 1
  /\ pending = [s \in Slots |-> Idle]

\* clients with and without a session on every case, statistics and user
\* route. One case, statistics or user request awaits the store at a
\* time, and a login or a logout can be in flight beside a user request.
\* The clients work on cases while the users table is as
\* initializeDefaultUsers left it, and on users while no case has been
\* recorded
OnCases == users = DefaultUsers /\ Free(2)
OnUsers == nextId = 1
BesideUsers == pending[1].op \in {"none", "createUser", "updateUser", "deleteUser"}

LoginAny ==
  /\ BesideUsers
  /\ \E sid \in SessionIds, username \in UsernameInputs,
        password \in PasswordInputs :
       Login(sid, 2, username, password)
UpdateLastLoginAny == UpdateLastLogin(2)
CreateUserSessionAny == CreateUserSession(2)
OpenSessionAny == OpenSession(2)
LogoutAny == BesideUsers /\ \E sid \in SessionIds : Logout(sid, 2)
UpdateSessionLogoutAny == UpdateSessionLogout(2)
DestroySessionAny == DestroySession(2)
StatsAny == OnCases /\ \E sid \in SessionIds : RouteStats(sid, 1)
ListAny == OnCases /\ \E sid \in SessionIds, q \in PlainQueries : RouteList(sid, 1, q)
GetAny == OnCases /\ \E sid \in SessionIds, id \in RequestIds : RouteGet(sid, 1, id)
CreateAny == OnCases /\ \E sid \in SessionIds : RouteCreate(sid, 1, CreateBodies[1])
UpdateAny ==
  /\ OnCases
  /\ \E sid \in SessionIds, id \in RequestIds :
       \E now \in ServerTimes : RouteUpdate(sid, 1, id, ManagedKeyBodies[1], now)
DeleteAny == OnCases /\ \E sid \in SessionIds, id \in RequestIds : RouteDelete(sid, 1, id)
StatsQueryAuth == \E year \in Years : StatsQuery(1, year)
ExecGetAny == ExecGet(1)
ExecCreateAny == ExecCreate(1)
ExecUpdateOne == ExecUpdate(1)
ExecDeleteAny == ExecDelete(1)
CreateUserAny ==
  OnUsers /\ \E sid \in SessionIds, body \in UserBodies : RouteCreateUser(sid, 1, body)
UpdateUserAny ==
  /\ OnUsers
  /\ \E sid \in SessionIds, id \in UserIdInputs, isActive \in IsActiveInputs :
       RouteUpdateUser(sid, 1, id, isActive)
DeleteUserAny ==
  /\ OnUsers
  /\ \E sid \in SessionIds, id \in DeletedUserInputs : RouteDeleteUser(sid, 1, id)
ExecCreateUserAny == ExecCreateUser(1)
ExecUpdateUserAny == ExecUpdateUser(1)
ExecDeleteUserAny == ExecDeleteUser(1)
NextAuth ==
  \/ LoginAny \/ UpdateLastLoginAny \/ CreateUserSessionAny \/ OpenSessionAny
  \/ LogoutAny \/ UpdateSessionLogoutAny \/ DestroySessionAny
  \/ StatsAny \/ StatsQueryAuth \/ ListAny \/ ReadPageAny \/ ReadCountAny
  \/ GetAny \/ ExecGetAny \/ CreateAny \/ ExecCreateAny
  \/ UpdateAny \/ ExecUpdateOne \/ DeleteAny \/ ExecDeleteAny
  \/ CreateUserAny \/ ExecCreateUserAny \/ UpdateUserAny \/ ExecUpdateUserAny
  \/ DeleteUserAny \/ ExecDeleteUserAny
AuthSpec == AuthInit /\ [][NextAuth]_vars

(* ------------------------------- claims ------------------------------- *)

FilterKeys == {"search", "crimeType", "dateFrom", "dateTo"}

IsListSuccess == resp.op = "list" /\ resp.status = 200

\* the filters a list request supplied
Supplied(a) == {k \in FilterKeys : a[k] # <<>>}

\* what a list request with only filter k of a matches
MatchedAlone(a, k) == MatchedIds(store, [NoArgs EXCEPT ![k] = a[k]])

Intersection(a) ==
  {i \in DOMAIN store : \A k \in Supplied(a) : i \in MatchedAlone(a, k)}

\* C1: the records a list request matches are records of the unfiltered
\* set and are exactly those matched by every supplied filter on its own:
\* the page holds only such records, all of them when it is large enough,
\* and total counts them
C1_AndComposition ==
  IsListSuccess =>
    LET a == resp.args
    IN /\ Range(resp.ids) \subseteq MatchedIds(store, NoArgs)
       /\ Range(resp.ids) \subseteq Intersection(a)
       /\ resp.total = Cardinality(Intersection(a))
       /\ (a.offset = 0 /\ a.limit >= resp.total => Range(resp.ids) = Intersection(a))

\* a request with two filters at least, each of which alone matches some
\* record that the filters together do not
C1_Witness ==
  /\ IsListSuccess
  /\ Cardinality(Supplied(resp.args)) >= 2
  /\ \A k \in Supplied(resp.args) :
       MatchedAlone(resp.args, k) \ Range(resp.ids) # {}

\* a row satisfies a filter: each supplied field holds of it
Satisfies(row, a) ==
  /\ a.search # <<>> =>
       \E f \in {"expedientNumber", "crimeType", "victim"} : ILike(row[f], a.search)
  /\ a.crimeType # <<>> => row.crimeType = a.crimeType
  /\ a.dateFrom # <<>> => DateOrd(row.caseDate) >= DateOrd(ParseDate(a.dateFrom))
  /\ a.dateTo # <<>> => DateOrd(row.caseDate) <= DateOrd(ParseDate(a.dateTo))

\* C2: the total of a list response is the number of rows of the store
\* that satisfy the filter, whatever page and limit were asked
C2_TotalIsCount ==
  IsListSuccess =>
    resp.total = Cardinality({i \in DOMAIN store : Satisfies(store[i], resp.args)})

\* a page that holds fewer rows than total: a later page, or a small limit
C2_Witness ==
  /\ IsListSuccess
  /\ resp.total = 2
  /\ Len(resp.ids) < resp.total
  /\ resp.args.page >= 2

RECURSIVE Flatten(_)
Flatten(pages) ==
  IF pages = <<>> THEN <<>> ELSE Head(pages) \o Flatten(Tail(pages))

\* the client has paged with limit 1 up to an empty page
ScanComplete == scan.pages # <<>> /\ scan.pages[Len(scan.pages)] = <<>>

\* C3: paging with limit 1 over an unchanging store up to an empty page
\* returns every matching record exactly once
C3_EveryRecordOnce ==
  ScanComplete =>
    LET got == Flatten(scan.pages)
    IN /\ Range(got) = MatchedIds(store, scan.filter)
       /\ Len(got) = Cardinality(MatchedIds(store, scan.filter))

\* s occurs in t as a run of characters, letter case ignored
Contains(t, s) ==
  \E k \in 0..(Len(t) - Len(s)) :
    \A i \in 1..Len(s) : Lower[t[k + i]] = Lower[s[i]]

\* C4: a search filter alone matches exactly the records one of whose
\* expedientNumber, crimeType, victim contains the search text literally
C4_SearchIsLiteralSubstring ==
  (IsListSuccess /\ Supplied(resp.args) = {"search"}) =>
    Range(resp.ids) =
      {i \in DOMAIN store :
         \E f \in {"expedientNumber", "crimeType", "victim"} :
           Contains(store[i][f], resp.args.search)}

\* C5: no list request is run with limit 0 and answered as a success
\* with an empty page
C5_LimitAtLeastOne ==
  ~(/\ IsListSuccess
    /\ "limit" \notin resp.args.nan
    /\ resp.args.limit = 0
    /\ resp.ids = <<>>)

\* C6: the page of a list request is a number of at least 1 and its
\* offset is never negative
C6_PageAtLeastOne ==
  resp.op = "list" =>
    /\ "page" \notin resp.args.nan
    /\ resp.args.page >= 1
    /\ resp.args.offset >= 0

\* C7: an update of an id that is not in the store, with a body the schema
\* and the store accept, is answered 404 and changes no record
C7_UpdateMissingIsNotFound ==
  [][\A id \in RequestIds, b \in 1..Len(UpdateBodies), now \in ServerTimes :
       (/\ UpdateCase(id, UpdateBodies[b], now)
        /\ id \notin DOMAIN store
        /\ ZodParse(UpdateBodies[b], TRUE).ok
        /\ ~BindError(ZodParse(UpdateBodies[b], TRUE).data))
       => (resp'.status = 404 /\ store' = store)]_vars

\* C8: a create whose expedientNumber is already in the store is answered
\* as a validation error (400) and adds no record
C8_DuplicateIsValidationError ==
  [][\A u \in Users, b \in 1..Len(CreateBodies) :
       (/\ CreateCase(u, CreateBodies[b])
        /\ ZodParse(CreateBodies[b], FALSE).ok
        /\ ~BindError(ZodParse(CreateBodies[b], FALSE).data)
        /\ UniqueViolation(store, 0, ZodParse(CreateBodies[b], FALSE).data))
       => (resp'.status = 400 /\ store' = store)]_vars

\* C9: no two records of the store have the same expedientNumber
C9_ExpedientNumberUnique ==
  \A i, j \in DOMAIN store :
    i # j => store[i].expedientNumber # store[j].expedientNumber

\* an update that would have given a second record the expedient number
\* of another one has just been refused
C9_Witness ==
  /\ resp.op = "update"
  /\ resp.err = "UniqueViolation"
  /\ Cardinality(DOMAIN store) = 2
  /\ resp.id \in DOMAIN store

\* C10: every record of the store has a stolenAmount of at least 0
C10_AmountNonNegative ==
  \A i \in DOMAIN store : store[i].stolenAmount >= 0

\* a mandatory field of a create body is missing, is not a text, or is a
\* date or an amount that cannot be read
Malformed(body) ==
  \E f \in RequiredFields :
    \/ f \notin DOMAIN body
    \/ body[f].t # "string"
    \/ (f = "caseDate" /\ ~ParseDate(body[f].s).ok)
    \/ (f = "stolenAmount" /\ ~ParseNumeric(body[f].s).ok)

\* C11: a create whose body misses a mandatory field, or carries one that
\* is malformed (an amount that is not a number, a date that cannot be
\* read), is answered as a validation error (400) and adds no record
C11_MalformedIsValidationError ==
  [][\A u \in Users, b \in 1..Len(CreateBodies) :
       (CreateCase(u, CreateBodies[b]) /\ Malformed(CreateBodies[b]))
       => (resp'.status = 400 /\ store' = store)]_vars

\* keys of a case that only the server writes
ManagedKeys == {"id", "createdBy", "createdAt", "updatedAt"}

\* C12: an update that succeeds on a record changes, of that record, the
\* fields its body supplies (to the supplied values) and updatedAt (to the
\* time the server read for the update); every other field keeps its
\* value, createdBy and the id included even when the body names them, and
\* no other record changes
C12_UpdateFrame ==
  [][\A id \in RequestIds, b \in 1..Len(ManagedKeyBodies), now \in ServerTimes :
       LET body == ManagedKeyBodies[b]
           supplied == DOMAIN body \ ManagedKeys
       IN (/\ resp'.op = "update"
           /\ resp'.status = 200
           /\ resp'.id = id
           /\ id \in DOMAIN store
           /\ UpdateCase(id, body, now))
          => /\ DOMAIN store' = DOMAIN store
             /\ \A j \in DOMAIN store \ {id} : store'[j] = store[j]
             /\ DOMAIN store'[id] = DOMAIN store[id]
             /\ \A f \in supplied : store'[id][f] = ColumnValue(f, body[f])
             /\ \A f \in DOMAIN store[id] \ (supplied \cup {"updatedAt"}) :
                  store'[id][f] = store[id][f]
             /\ store'[id].updatedAt = now]_vars

\* a record whose update named createdBy and id has been changed in the
\* supplied field, at a time later than its creation
C12_Witness ==
  /\ resp.op = "update"
  /\ resp.status = 200
  /\ resp.id \in DOMAIN store
  /\ store[resp.id].investigationStatus = "Rechazado"
  /\ store[resp.id].createdBy = "admin"
  /\ store[resp.id].updatedAt > store[resp.id].createdAt

\* C13: the record a create adds has the identity of the caller of that
\* request as createdBy, whatever the body says, and the createdBy of every
\* record of the store is the identity of a caller (never empty)
C13_CreatedByIsCaller ==
  /\ [][\A u \in Users, b \in 1..Len(CreateBodies) :
          (/\ resp'.op = "create"
           /\ resp'.status = 201
           /\ CreateCase(u, CreateBodies[b]))
          => /\ resp'.id \notin DOMAIN store
             /\ resp'.id \in DOMAIN store'
             /\ store'[resp'.id].createdBy = u]_vars
  /\ [](\A i \in DOMAIN store : store[i].createdBy \in Users)

\* the caller "investigator" has created a case from the body that names
\* createdBy itself
C13_Witness ==
  /\ resp.op = "create"
  /\ resp.status = 201
  /\ resp.id \in DOMAIN store
  /\ store[resp.id].victim = <<"e", "m">>
  /\ "createdBy" \in DOMAIN CreateBodies[2]
  /\ store[resp.id].createdBy = "investigator"

\* ids that were given to a record which is no longer in the store: only
\* a delete removes a record
Deleted == {i \in 1..(nextId - 1) : i \notin DOMAIN store}

\* C14: after a delete of an id the store holds no record of that id, no
\* later operation brings a deleted record back, and a get of an id the
\* store has no record of is answered 404
C14_DeletedStaysNotFound ==
  /\ [][\A id \in RequestIds :
          (/\ resp'.op = "delete"
           /\ resp'.status = 204
           /\ DeleteCase(id))
          => id \notin DOMAIN store']_vars
  /\ [][\A id \in Deleted : id \notin DOMAIN store']_vars
  /\ [](resp.op = "get" =>
          (resp.status = 404 <=> resp.id \notin DOMAIN store))

\* a get of a deleted id is answered 404 while the store holds a record
\* created after the deleted one
C14_Witness ==
  /\ resp.op = "get"
  /\ resp.status = 404
  /\ resp.id \in Deleted
  /\ \E j \in DOMAIN store : j > resp.id

IsStats == resp.op = "stats" /\ resp.status = 200

\* the stolenAmount of the records with ids 1..n, in hundredths
RECURSIVE AmountUpTo(_)
AmountUpTo(n) ==
  IF n = 0 THEN 0
  ELSE (IF n \in DOMAIN store THEN store[n].stolenAmount ELSE 0) + AmountUpTo(n - 1)

\* C15: the statistics give totalCases as the number of records and
\* totalAmount as a number equal to the sum of their stolenAmount, which
\* is 0 when there is no record
C15_Totals ==
  resp.op = "stats" =>
    /\ resp.status = 200
    /\ resp.stats.totalCases = Cardinality(DOMAIN store)
    /\ ParseNumeric(resp.stats.totalAmount).ok
    /\ ParseNumeric(resp.stats.totalAmount).cents = AmountUpTo(nextId - 1)
    /\ (DOMAIN store = {} => ParseNumeric(resp.stats.totalAmount).cents = 0)

\* the statistics of a store of two records, 150.50 and 20.00
C15_Witness ==
  /\ IsStats
  /\ resp.stats.totalCases = 2
  /\ resp.stats.totalAmount = <<"1", "7", "0", ".", "5", "0">>

\* how the statistics are to class a record by its investigationStatus
StatusClass(row) ==
  CASE row.investigationStatus \in {"Pendiente", "En proceso"} -> "active"
    [] row.investigationStatus = "Completado" -> "resolved"
    [] OTHER -> "neither"

InClass(c) == {i \in DOMAIN store : StatusClass(store[i]) = c}

\* C16: the statistics give activeCases as the number of records that are
\* Pendiente or En proceso and resolvedCases as the number that are
\* Completado; a record of any other status is in neither count
C16_ActiveResolved ==
  resp.op = "stats" =>
    /\ resp.stats.activeCases = Cardinality(InClass("active"))
    /\ resp.stats.resolvedCases = Cardinality(InClass("resolved"))
    /\ resp.stats.activeCases + resp.stats.resolvedCases
         = resp.stats.totalCases - Cardinality(InClass("neither"))

\* the statistics of a store holding a Rechazado, a Pendiente and no
\* Completado record
C16_Witness ==
  /\ IsStats
  /\ \E i, j \in DOMAIN store :
       /\ store[i].investigationStatus = "Rechazado"
       /\ store[j].investigationStatus = "Pendiente"
  /\ resp.stats.activeCases = 1
  /\ resp.stats.resolvedCases = 0
  /\ resp.stats.totalCases = 2

RECURSIVE SeqSum(_)
SeqSum(q) == IF q = <<>> THEN 0 ELSE Head(q) + SeqSum(Tail(q))

\* the records dated in the year the statistics were computed in
CurrentYearCases == {i \in DOMAIN store : store[i].caseDate.y = resp.year}

\* C17: monthlyCases has 12 entries, entry m (counted from 1) being the
\* number of records dated in month m of the current year; the entries add
\* up to the number of current-year records
C17_MonthlyCases ==
  resp.op = "stats" =>
    LET mc == resp.stats.monthlyCases
    IN /\ Len(mc) = 12
       /\ \A m \in 1..12 :
            mc[m] = Cardinality({i \in CurrentYearCases : store[i].caseDate.m = m})
       /\ SeqSum(mc) = Cardinality(CurrentYearCases)

\* the statistics of 2025 over a store holding a case of February 2025
\* and a case of December 2024
C17_Witness ==
  /\ IsStats
  /\ resp.year = 2025
  /\ \E i, j \in DOMAIN store :
       /\ store[i].caseDate = [y |-> 2025, m |-> 2, d |-> 10]
       /\ store[j].caseDate = [y |-> 2024, m |-> 12, d |-> 31]
  /\ resp.stats.monthlyCases[2] = 1
  /\ resp.stats.monthlyCases[12] = 0
  /\ resp.stats.monthlyCases[1] = 0

\* code points of the characters crime types are written with
CharCode ==
  ("M" :> 77) @@ ("P" :> 80) @@ ("a" :> 97) @@ ("h" :> 104) @@ ("p" :> 112)

\* s comes before t in the order of names
RECURSIVE NameLess(_, _)
NameLess(s, t) ==
  IF t = <<>> THEN FALSE
  ELSE IF s = <<>> THEN TRUE
  ELSE IF Head(s) # Head(t) THEN CharCode[Head(s)] < CharCode[Head(t)]
  ELSE NameLess(Tail(s), Tail(t))

\* C18: crimeTypeStats has one entry for each crimeType value of the
\* store, with the number of records of that value, ordered by count
\* descending and, among equal counts, by type name
C18_CrimeTypeStatsOrdered ==
  resp.op = "stats" =>
    LET l == resp.stats.crimeTypeStats
    IN /\ {l[k].type : k \in 1..Len(l)} = {store[i].crimeType : i \in DOMAIN store}
       /\ \A j, k \in 1..Len(l) : j # k => l[j].type # l[k].type
       /\ \A k \in 1..Len(l) :
            l[k].count = Cardinality({i \in DOMAIN store : store[i].crimeType = l[k].type})
       /\ \A j, k \in 1..Len(l) :
            j < k => \/ l[j].count > l[k].count
                     \/ (l[j].count = l[k].count /\ NameLess(l[j].type, l[k].type))

\* s and t are the same text, character for character
SameText(s, t) == Len(s) = Len(t) /\ \A k \in 1..Len(s) : s[k] = t[k]

\* C19: a crimeType filter alone matches exactly the records whose
\* crimeType is the filter value character for character
C19_CrimeTypeExact ==
  (IsListSuccess /\ Supplied(resp.args) = {"crimeType"}) =>
    LET exact == {i \in DOMAIN store : SameText(store[i].crimeType, resp.args.crimeType)}
    IN /\ Range(resp.ids) = exact
       /\ resp.total = Cardinality(exact)

\* a crimeType filter has left out a record whose crimeType contains the
\* filter value when letter case is ignored
C19_Witness ==
  /\ IsListSuccess
  /\ Supplied(resp.args) = {"crimeType"}
  /\ \E i \in DOMAIN store :
       /\ Contains(store[i].crimeType, resp.args.crimeType)
       /\ i \notin Range(resp.ids)

\* calendar order: d1 is d2 or an earlier day
DateLeq(d1, d2) ==
  \/ d1.y < d2.y
  \/ (d1.y = d2.y /\ d1.m < d2.m)
  \/ (d1.y = d2.y /\ d1.m = d2.m /\ d1.d <= d2.d)

\* the records dated within the date bounds a list request supplied
InDateRange(a) ==
  {i \in DOMAIN store :
     /\ a.dateFrom # <<>> => DateLeq(ParseDate(a.dateFrom), store[i].caseDate)
     /\ a.dateTo # <<>> => DateLeq(store[i].caseDate, ParseDate(a.dateTo))}

\* dateFrom and dateTo, those of them that are supplied, are dates
DatesReadable(a) ==
  /\ a.dateFrom # <<>> => ParseDate(a.dateFrom).ok
  /\ a.dateTo # <<>> => ParseDate(a.dateTo).ok

\* C20: with date bounds alone a list request matches exactly the records
\* dated from dateFrom to dateTo, both days included; a range that starts
\* after it ends is answered with no record and total 0, not with an error
C20_DateBoundsInclusive ==
  (/\ resp.op = "list"
   /\ Supplied(resp.args) # {}
   /\ Supplied(resp.args) \subseteq {"dateFrom", "dateTo"}
   /\ DatesReadable(resp.args)) =>
    /\ resp.status = 200
    /\ Range(resp.ids) = InDateRange(resp.args)
    /\ resp.total = Cardinality(InDateRange(resp.args))
    /\ (/\ Supplied(resp.args) = {"dateFrom", "dateTo"}
        /\ ~DateLeq(ParseDate(resp.args.dateFrom), ParseDate(resp.args.dateTo)))
       => (resp.ids = <<>> /\ resp.total = 0)

\* both bounds on the day of a record: that record is returned and a
\* record of another day is not
C20_Witness ==
  /\ IsListSuccess
  /\ Supplied(resp.args) = {"dateFrom", "dateTo"}
  /\ resp.args.dateFrom = resp.args.dateTo
  /\ Len(resp.ids) = 1
  /\ store[resp.ids[1]].caseDate = [y |-> 2025, m |-> 1, d |-> 15]
  /\ Cardinality(DOMAIN store) = 2

\* the filter a request asks for when every filter it sends as the empty
\* text is left out: an absent or empty filter is no constraint
WithoutEmpty(q) ==
  [NoArgs EXCEPT
     !.search = IF q.search.present THEN q.search.s ELSE <<>>,
     !.crimeType = IF q.crimeType.present THEN q.crimeType.s ELSE <<>>,
     !.dateFrom = IF q.dateFrom.present THEN q.dateFrom.s ELSE <<>>,
     !.dateTo = IF q.dateTo.present THEN q.dateTo.s ELSE <<>>]

\* C21: a list request that sends a filter as the empty text gets the
\* records and the total of the request without that filter, and a request
\* with no filter at all gets every record of the store
C21_EmptyIsOmitted ==
  /\ \A q \in EmptyFilterQueries :
       (resp.op = "list" /\ resp.args = ListArgs(q)) =>
         LET expected == {i \in DOMAIN store : Satisfies(store[i], WithoutEmpty(q))}
         IN /\ resp.status = 200
            /\ Range(resp.ids) = expected
            /\ resp.total = Cardinality(expected)
  /\ (resp.op = "list" /\ Supplied(resp.args) = {}) =>
       /\ resp.status = 200
       /\ Range(resp.ids) = DOMAIN store
       /\ resp.total = Cardinality(DOMAIN store)

\* the response a request with every filter empty gets from a store of
\* two records: both
C21_Witness ==
  /\ IsListSuccess
  /\ \E q \in EmptyFilterQueries :
       /\ q.search = Q(<<>>)
       /\ q.crimeType = Q(<<>>)
       /\ resp.args = ListArgs(q)
  /\ Cardinality(DOMAIN store) = 2
  /\ Len(resp.ids) = 2

\* C22: the records of a page come in descending createdAt order, and no
\* record of page p was created later than a record of any page p - 1 the
\* same store can return for the same filter and limit
C22_PagesDescend ==
  IsListSuccess =>
    LET a == resp.args
        matching == {i \in DOMAIN store : Satisfies(store[i], a)}
    IN /\ \A i, j \in 1..Len(resp.ids) :
            i < j => store[resp.ids[i]].createdAt >= store[resp.ids[j]].createdAt
       /\ (a.nan = {} /\ a.page >= 2 /\ a.limit >= 1) =>
            \A o \in Orderings(store, matching) :
              \A i \in Range(PageSlice(o, a.limit, a.offset - a.limit)),
                 j \in Range(resp.ids) :
                store[i].createdAt >= store[j].createdAt

\* page 2 of limit 1 over two records created at different times: it
\* holds the older one
C22_Witness ==
  /\ IsListSuccess
  /\ resp.args.page = 2
  /\ resp.args.limit = 1
  /\ Len(resp.ids) = 1
  /\ \E j \in DOMAIN store : store[j].createdAt > store[resp.ids[1]].createdAt

\* C23: a list request with page >= 1 and limit >= 1 succeeds with at most
\* limit records and the number of records matching the filter as total;
\* past the last page, page > ceil(total / limit), the list is empty and
\* the total is still that number
C23_PageBounds ==
  (resp.op = "list" /\ resp.args.page >= 1 /\ resp.args.limit >= 1) =>
    LET matching == {i \in DOMAIN store : Satisfies(store[i], resp.args)}
    IN /\ resp.status = 200
       /\ Len(resp.ids) <= resp.args.limit
       /\ Range(resp.ids) \subseteq matching
       /\ resp.total = Cardinality(matching)
       /\ resp.args.page > TotalPages(resp.total, resp.args.limit) =>
            resp.ids = <<>>

\* page 3 of limit 1 over two matching records: empty, total 2
C23_Witness ==
  /\ IsListSuccess
  /\ resp.args.page = 3
  /\ resp.args.limit = 1
  /\ resp.total = 2
  /\ resp.ids = <<>>

\* C28: a delete of an id the store has no record of is answered 204 and
\* leaves the store as it was, and deleting an id from a store it was
\* already deleted from gives the store of the first delete
C28_DeleteMissingIsNoOp ==
  /\ [][\A id \in RequestIds :
          (/\ resp'.op = "delete"
           /\ id \notin DOMAIN store
           /\ DeleteCase(id))
          => (resp'.status = 204 /\ store' = store)]_vars
  /\ [](\A id \in RequestIds :
          DeleteCyberCase(DeleteCyberCase(store, id), id) = DeleteCyberCase(store, id))

\* a delete of an id that was never given to a record, answered 204 over
\* a store that holds records
C28_Witness ==
  /\ resp.op = "delete"
  /\ resp.status = 204
  /\ resp.id \notin 1..(nextId - 1)
  /\ DOMAIN store # {}

\* C29: a create whose body leaves investigationStatus out, is otherwise
\* well formed and brings a new expedient number is answered 201 and its
\* record is stored as Pendiente; the statistics fetched after the record
\* created last was stored as Pendiente count it in activeCases
C29_DefaultStatusIsActive ==
  /\ [][\A b \in 1..Len(CreateBodies) :
          (/\ resp'.op = "create"
           /\ "investigationStatus" \notin DOMAIN CreateBodies[b]
           /\ ~Malformed(CreateBodies[b])
           /\ \A i \in DOMAIN store :
                store[i].expedientNumber # CreateBodies[b].expedientNumber.s
           /\ CreateCase("admin", CreateBodies[b]))
          => /\ resp'.status = 201
             /\ store'[resp'.id].investigationStatus = "Pendiente"]_vars
  /\ [](LET last == nextId - 1
              active == {i \in DOMAIN store :
                           store[i].investigationStatus \in {"Pendiente", "En proceso"}}
          IN (/\ IsStats
              /\ last \in DOMAIN store
              /\ store[last].investigationStatus = "Pendiente")
             => /\ last \in active
                /\ resp.stats.activeCases = Cardinality(active))

\* the statistics of a store whose one record was created without an
\* investigationStatus
C29_Witness ==
  /\ IsStats
  /\ Cardinality(DOMAIN store) = 1
  /\ \E i \in DOMAIN store :
       /\ store[i].expedientNumber = <<"e", "2">>
       /\ store[i].investigationStatus = "Pendiente"
  /\ resp.stats.activeCases = 1

\* C25: over one state of the store, the statistics computed for two
\* different callers are identical
C25_SameForEveryCaller ==
  \A year \in Years, u, v \in Users :
    u # v =>
      \A s1 \in GetDashboardStats([q \in 1..5 |-> store], u, year),
         s2 \in GetDashboardStats([q \in 1..5 |-> store], v, year) : s1 = s2

\* a request to a case or statistics route arriving with a session
AnyRoute(sid) ==
  \/ RouteStats(sid, 1)
  \/ \E q \in PlainQueries : RouteList(sid, 1, q)
  \/ \E id \in RequestIds : RouteGet(sid, 1, id)
  \/ RouteCreate(sid, 1, CreateBodies[1])
  \/ \E id \in RequestIds, now \in ServerTimes :
       RouteUpdate(sid, 1, id, ManagedKeyBodies[1], now)
  \/ \E id \in RequestIds : RouteDelete(sid, 1, id)

\* the credentials posted are those of a user who exists and is active
Matches(user, username, password) ==
  /\ user.username = username
  /\ user.isActive = "true"
  /\ password.present
  /\ user.password = HashPassword(password.s)

\* the row two updates leave when the second is applied to what the first
\* left: a column set by the second has its value, any other column set
\* by the first has the first's, the rest are as before
AppliedInOrder(first, second) ==
  [f \in DOMAIN first.before |->
     IF f = "updatedAt" THEN second.now
     ELSE IF f \in DOMAIN second.data THEN ColumnValue(f, second.data[f])
     ELSE IF f \in DOMAIN first.data THEN ColumnValue(f, first.data[f])
     ELSE first.before[f]]

\* C24: when two updates of one id are in flight together the store runs
\* their statements one after the other, the second on the row the first
\* left: the record is the one the two leave applied in that order, a
\* column set by both has the value of the second, and neither is turned
\* down for being the older
C24_LaterWriteWins ==
  [][\A s \in Slots :
       (pending[s].op = "update" /\ pending'[s].op = "none") =>
         LET r == pending[s]
             second == [data |-> ZodParse(r.body, TRUE).data, now |-> r.now]
         IN /\ resp'.op = "update"
            /\ resp'.status = 200
            /\ r.prior.set =>
                 /\ r.id \in DOMAIN store'
                 /\ store'[r.id] = AppliedInOrder(r.prior, second)
                 /\ \A f \in DOMAIN second.data :
                      store'[r.id][f] = ColumnValue(f, second.data[f])]_vars

\* two updates of one record that set investigationStatus differently
\* were in flight together: the one that read the earlier time ran last,
\* and the record has its status, the victim the other set and the
\* earlier of the two times as updatedAt
C24_Witness ==
  /\ resp.op = "update"
  /\ resp.status = 200
  /\ \E s \in Slots :
       /\ pending[s].op = "none"
       /\ "overtook" \in DOMAIN pending[s]
       /\ pending[s].overtook.id = resp.id
       /\ pending[s].overtook.now < pending[s].overtook.prior
       /\ resp.id \in DOMAIN store
       /\ store[resp.id].investigationStatus = "Rechazado"
       /\ store[resp.id].victim = <<"e", "m">>
       /\ store[resp.id].updatedAt = pending[s].overtook.now

\* the records of table st that satisfy the filter of a
MatchingIn(st, a) == {i \in DOMAIN st : Satisfies(st[i], a)}

\* C26: the page and the total of a list response are each right for the
\* request's one filter on a table the store held during the request,
\* the page on the table the page select read and the total on the table
\* the count select read, whatever was created, updated or deleted
\* between the two
C26_PageAndCountSamePredicate ==
  [][\A s \in Slots :
       (pending[s].op = "list" /\ pending'[s].op = "none") =>
         LET r == pending[s]
             pageRead == IF r.page = "done" THEN r.snap ELSE store
             countRead == IF r.count = "done" THEN r.snap ELSE store
         IN /\ resp'.op = "list"
            /\ resp'.status = 200
            /\ resp'.args = r.args
            /\ resp'.ids \in {PageSlice(o, r.args.limit, r.args.offset) :
                                o \in Orderings(pageRead, MatchingIn(pageRead, r.args))}
            /\ resp'.total = Cardinality(MatchingIn(countRead, r.args))]_vars

\* a response of the default limit with one record and a total of two:
\* a record was created after the page was read and before the count
C26_Witness ==
  /\ IsListSuccess
  /\ resp.args.limit = DefaultLimit
  /\ resp.args.page = 1
  /\ Len(resp.ids) = 1
  /\ resp.total = 2

\* the counts of the crimeTypeStats entries, added up
RECURSIVE CountsSum(_)
CountsSum(entries) ==
  IF entries = <<>> THEN 0 ELSE Head(entries).count + CountsSum(Tail(entries))

\* C27 as stated: in every statistics response the counts of the
\* crimeTypeStats entries add up to totalCases, also when creates and
\* deletes take effect between the sub-queries of the call
C27_CountsSumToTotal ==
  IsStats => CountsSum(resp.stats.crimeTypeStats) = resp.stats.totalCases

\* C27 as amended: the counts of the crimeTypeStats entries add up to
\* totalCases when the table holds the same records at the crime-type
\* sub-query as at the totals sub-query
C27_CountsSumWhenSameRecords ==
  [][\A s \in Slots :
       (/\ pending[s].op = "stats"
        /\ pending'[s].op = "none"
        /\ pending[s].counted = DOMAIN store)
       => /\ resp'.op = "stats"
          /\ CountsSum(resp'.stats.crimeTypeStats) = resp'.stats.totalCases
          /\ resp'.stats.totalCases = Cardinality(DOMAIN store)]_vars

\* the statistics of a store of two records of different crime types that
\* no create or delete touched during the call
C27_Witness ==
  /\ IsStats
  /\ resp.stats.totalCases = 2
  /\ Len(resp.stats.crimeTypeStats) = 2
  /\ Cardinality(DOMAIN store) = 2
  /\ \A s \in Slots : pending[s].op = "none"

====
